---- MODULE Spec2Model ----
(***************************************************************************)
(* tempural: parameter-structure inference (infer-params), JSON-Schema     *)
(* synthesis and the interactive input builders of `start --interactive`.  *)
(*                                                                         *)
(* Three state machines share this module:                                 *)
(*   Spec       inferWorkflowParams: list executions, examine the first    *)
(*              `limit` histories, deduplicate payload structures, emit.   *)
(*   SpecBuild  startWorkflow in interactive mode: infer a schema from the *)
(*              first execution, run the prompt-driven builders one        *)
(*              console line at a time, confirm, execute.                  *)
(*   SpecCmd    start, signal, query and describe: the workflow ID each    *)
(*              command uses, the client it creates, the calls it makes.   *)
(***************************************************************************)
EXTENDS Integers, Sequences, FiniteSets, TLC

VARIABLES
    \* ---- inferWorkflowParams ----
    pc,               \* position in inferWorkflowParams
    limit,            \* c.Int("limit")
    workflowType,     \* c.String("workflow-type")
    outputAsJSONSchema, \* c.Bool("json-schema")
    nExec,            \* len(resp.Executions)
    numToExamine,     \* numToExamine
    idx,              \* number of executions the range loop has visited
    fetched,          \* positions whose history was requested
    pending,          \* payloads of the current start event still to examine
    paramStructures,  \* map[string]interface{}: key -> skeleton
    paramExamples,    \* map[string]interface{}: key -> first example
    examined,         \* decoded payloads seen ("Found parameter structure")
    found,            \* number of "Found parameter structure" lines printed
    skipped,          \* payloads and histories skipped with a "Warning:" line
    combinedSchema,   \* the schema printed with --json-schema
    output,           \* what the command printed / returned
    \* ---- startWorkflow --interactive ----
    bpc,              \* position in startWorkflow
    schema,           \* result of inferWorkflowSchemaForType
    jsonObj,          \* the payload the schema was generated from
    stack,            \* call stack of the builders, top is the last frame
    ret,              \* value handed from a returning builder to its caller
    consumed,         \* console lines read so far
    errors,           \* "Error:" lines printed so far (saturating)
    inputData,        \* the built document
    readers,          \* bufio.NewScanner(os.Stdin) calls so far (saturating)
    resp,             \* resp of inferWorkflowSchemaForType, while it runs
    \* ---- start, signal, query, describe ----
    command,          \* the command that runs
    cpc,              \* position in the command's handler
    config,           \* TemporalConfig (the global flags)
    flagWorkflowID,   \* c.String("workflow-id") of start
    interactive,      \* c.Bool("interactive") of start
    inputFlag,        \* c.String("input"), c.String("args") of query
    stdin,            \* what reading os.Stdin to its end gives
    temporalClient,   \* whether getTemporalClient has returned a client
    workflowID,       \* workflowID of startWorkflow
    generated,        \* "No workflow ID provided, using auto-generated ID"
    payload,          \* input / args handed to the client call
    calls,            \* calls made on the Temporal client
    returned          \* the error the handler returned, "ok" for nil

ivars == <<pc, limit, workflowType, outputAsJSONSchema, nExec, numToExamine,
           idx, fetched, pending, paramStructures, paramExamples, examined, found,
           skipped, combinedSchema, output>>
bvars == <<bpc, schema, jsonObj, stack, ret, consumed, errors, inputData,
           readers, resp>>
cvars == <<command, cpc, config, flagWorkflowID, interactive, inputFlag, stdin,
           temporalClient, workflowID, generated, payload, calls, returned>>
vars == <<ivars, bvars, cvars>>

(***************************************************************************)
(* Bounds of the model.                                                    *)
(***************************************************************************)
MaxExecs == 4        \* executions returned by ListWorkflow
MaxLimit == 3        \* largest explicit --limit value tried
MaxPayloads == 2     \* payloads in one start event
MaxInputs == 4       \* console lines before end of input
MaxMenuInputs == 5   \* the same, in a session that has no schema
MaxReaders == 2      \* the count of readers created saturates here
MaxErrors == 3       \* the error-line counter saturates here
MaxListed == 2       \* executions listed for the schema of start
MaxUnix == 1         \* largest time.Now().Unix() tried

(***************************************************************************)
(* Program constants.                                                      *)
(***************************************************************************)
DefaultLimit == 3

Draft07 == "http://json-schema.org/draft-07/schema#"

(***************************************************************************)
(* JSON values as Go's encoding/json decodes them into interface{}.        *)
(***************************************************************************)
JNull == [t |-> "null"]
JBool(b) == [t |-> "bool", b |-> b]
JNum(n) == [t |-> "number", n |-> n]
JStr(s) == [t |-> "string", s |-> s]
JArr(a) == [t |-> "array", a |-> a]
JObj(o) == [t |-> "object", o |-> o]

EmptyMap == [k \in {} |-> JNull]

\* Minimum of two integers.
Min(a, b) == IF a < b THEN a ELSE b

\* The functions that pick one element of F[k] for every k in DOMAIN F.
RECURSIVE ChoiceFns(_)
ChoiceFns(F) ==
    IF DOMAIN F = {} THEN {<<>>}
    ELSE LET k == CHOOSE x \in DOMAIN F : TRUE
             rest == ChoiceFns([x \in DOMAIN F \ {k} |-> F[x]])
         IN  {(k :> e) @@ r : e \in F[k], r \in rest}

\* All orders in which a Go `range` over a map may visit the keys S.
Perms(S) ==
    {p \in [1..Cardinality(S) -> S] :
        \A i, j \in 1..Cardinality(S) : i # j => p[i] # p[j]}

(***************************************************************************)
(* json.Unmarshal on the payload texts of the model.  ok = FALSE is a      *)
(* decoding error.  Every JSON number decodes to float64, never int.       *)
(***************************************************************************)
BadJSON == [ok |-> FALSE, v |-> JNull]
Decoded(v) == [ok |-> TRUE, v |-> v]

Unmarshal(data) ==
    CASE data = "{\"id\":\"a\"}" -> Decoded(JObj([id |-> JStr("a")]))
      [] data = "{ \"id\" : \"a\" }" -> Decoded(JObj([id |-> JStr("a")]))
      [] data = "{\"id\":\"b\"}" -> Decoded(JObj([id |-> JStr("b")]))
      [] data = "{\"id\":5}" -> Decoded(JObj([id |-> JNum(5)]))
      [] data = "{\"id\":null,\"n\":1}" ->
            Decoded(JObj([id |-> JNull, n |-> JNum(1)]))
      [] data = "{\"n\":1,\"tags\":[\"x\",2]}" ->
            Decoded(JObj([n |-> JNum(1), tags |-> JArr(<<JStr("x"), JNum(2)>>)]))
      [] data = "{\"n\":2,\"tags\":[\"y\"]}" ->
            Decoded(JObj([n |-> JNum(2), tags |-> JArr(<<JStr("y")>>)]))
      [] data = "{\"n\":1}" -> Decoded(JObj([n |-> JNum(1)]))
      [] data = "{\"ok\":true}" -> Decoded(JObj([ok |-> JBool(TRUE)]))
      [] data = "{\"o\":{\"ok\":false}}" ->
            Decoded(JObj([o |-> JObj([ok |-> JBool(FALSE)])]))
      [] data = "{\"o\":{}}" -> Decoded(JObj([o |-> JObj(EmptyMap)]))
      [] data = "{\"tags\":[]}" -> Decoded(JObj([tags |-> JArr(<<>>)]))
      [] data = "{\"tags\":[1]}" -> Decoded(JObj([tags |-> JArr(<<JNum(1)>>)]))
      [] data = "{\"tags\":[true]}" ->
            Decoded(JObj([tags |-> JArr(<<JBool(TRUE)>>)]))
      [] data = "{\"tags\":[\"y\"]}" ->
            Decoded(JObj([tags |-> JArr(<<JStr("y")>>)]))
      [] data = "{\"tags\":[{\"id\":null}]}" ->
            Decoded(JObj([tags |-> JArr(<<JObj([id |-> JNull])>>)]))
      [] data = "{\"tags\":[{\"n\":1}]}" ->
            Decoded(JObj([tags |-> JArr(<<JObj([n |-> JNum(1)])>>)]))
      [] data = "{\"tags\":[[\"x\"]]}" ->
            Decoded(JObj([tags |-> JArr(<<JArr(<<JStr("x")>>)>>)]))
      [] data = "{\"id\":null}" -> Decoded(JObj([id |-> JNull]))
      [] data = "{}" -> Decoded(JObj(EmptyMap))
      [] data = "[]" -> Decoded(JArr(<<>>))
      [] data = "[5,\"x\"]" -> Decoded(JArr(<<JNum(5), JStr("x")>>))
      [] data = "\"s\"" -> Decoded(JStr("s"))
      [] data = "5" -> Decoded(JNum(5))
      [] data = "null" -> Decoded(JNull)
      [] OTHER -> BadJSON

\* Mutant: an object is typed as a string.
getJSONType_ObjectAsString(v) ==
    CASE v.t = "array" -> "array"
      [] v.t = "number" -> "number"
      [] v.t = "bool" -> "boolean"
      [] v.t = "null" -> "null"
      [] OTHER -> "string"

\* Mutant: numbers are typed "integer".
getJSONType_Integer(v) ==
    CASE v.t = "object" -> "object"
      [] v.t = "array" -> "array"
      [] v.t = "string" -> "string"
      [] v.t = "number" -> "integer"
      [] v.t = "bool" -> "boolean"
      [] v.t = "null" -> "null"
      [] OTHER -> "string"

(***************************************************************************)
(* getJSONType: the schema type of a decoded value.                        *)
(***************************************************************************)
getJSONType(v) ==
    CASE v.t = "object" -> "object"
      [] v.t = "array" -> "array"
      [] v.t = "string" -> "string"
      [] v.t = "number" -> "number"
      [] v.t = "bool" -> "boolean"
      [] v.t = "null" -> "null"
      [] OTHER -> "string"

(***************************************************************************)
(* getStructureJSON: the type-only skeleton of a value.                    *)
(***************************************************************************)
\* Mutant: every leaf gets the same tag.
RECURSIVE getStructureJSON_NoLeafTypes(_)
getStructureJSON_NoLeafTypes(data) ==
    CASE data.t = "object" ->
            JObj([key \in DOMAIN data.o |->
                    getStructureJSON_NoLeafTypes(data.o[key])])
      [] data.t = "array" ->
            IF Len(data.a) > 0
            THEN JArr(<<getStructureJSON_NoLeafTypes(data.a[1])>>)
            ELSE JArr(<<JStr("empty_array")>>)
      [] OTHER -> JStr("value")

RECURSIVE getStructureJSON(_)
getStructureJSON(data) ==
    CASE data.t = "object" ->
            JObj([key \in DOMAIN data.o |-> getStructureJSON(data.o[key])])
      [] data.t = "array" ->
            IF Len(data.a) > 0
            THEN JArr(<<getStructureJSON(data.a[1])>>)
            ELSE JArr(<<JStr("empty_array")>>)
      [] data.t = "string" -> JStr("string")
      [] data.t = "number" -> JStr("number")
      [] data.t = "bool" -> JStr("boolean")
      [] data.t = "null" -> JStr("null")

(***************************************************************************)
(* fmt.Sprintf("%v", skeleton).  fmt prints a map as map[k:v k:v] with the *)
(* keys sorted, a slice as [v v] and a string as its raw text.  KeyOrder   *)
(* lists the object keys of the model in Go's string order.                *)
(***************************************************************************)
KeyOrder == <<"id", "n", "o", "ok", "tags">>

SortedKeys(S) == SelectSeq(KeyOrder, LAMBDA k : k \in S)

RECURSIVE JoinSpace(_)
JoinSpace(parts) ==
    IF parts = <<>> THEN ""
    ELSE IF Len(parts) = 1 THEN parts[1]
    ELSE parts[1] \o " " \o JoinSpace(Tail(parts))

\* %v of a float64 holding a small natural number.
Digit(d) ==
    CASE d = 0 -> "0" [] d = 1 -> "1" [] d = 2 -> "2" [] d = 3 -> "3"
      [] d = 4 -> "4" [] d = 5 -> "5" [] d = 6 -> "6" [] d = 7 -> "7"
      [] d = 8 -> "8" [] d = 9 -> "9"

RECURSIVE FormatFloat(_)
FormatFloat(n) ==
    IF n < 10 THEN Digit(n) ELSE FormatFloat(n \div 10) \o Digit(n % 10)

RECURSIVE Sprintf(_)
Sprintf(v) ==
    CASE v.t = "string" -> v.s
      [] v.t = "object" ->
            LET ks == SortedKeys(DOMAIN v.o)
            IN "map[" \o
               JoinSpace([i \in 1..Len(ks) |-> ks[i] \o ":" \o Sprintf(v.o[ks[i]])])
               \o "]"
      [] v.t = "array" ->
            "[" \o JoinSpace([i \in 1..Len(v.a) |-> Sprintf(v.a[i])]) \o "]"
      [] v.t = "number" -> FormatFloat(v.n)
      [] v.t = "bool" -> IF v.b THEN "true" ELSE "false"
      [] v.t = "null" -> "<nil>"

(***************************************************************************)
(* generateJSONSchema.  A Go map is ranged over in an unspecified order,   *)
(* so `required` may come out in any order of the non-null keys: the       *)
(* operator yields the set of schemas one call can return.  A schema is a  *)
(* map[string]interface{}: a function whose domain is the keys present.    *)
(***************************************************************************)
TitleFields(title) ==
    IF title # ""
    THEN [title |-> title \o " Parameters",
          description |-> "Parameter schema for " \o title \o " workflow"]
    ELSE <<>>

RequiredField(required) ==
    IF Len(required) > 0 THEN [required |-> required] ELSE <<>>

\* Mutant: every key is required.
RequiredKeys_All(v) == DOMAIN v

\* The keys appended to `required`: those whose value is not nil.
RequiredKeys(v) == {key \in DOMAIN v : v[key] # JNull}

\* The schema of an array's items.
RECURSIVE generateJSONSchema(_, _)
\* Mutant: the last element decides the items.
ItemsSchemas_Last(a) ==
    IF Len(a) > 0
    THEN generateJSONSchema(a[Len(a)], "")
    ELSE {[type |-> "string"]}

ItemsSchemas(a) ==
    IF Len(a) > 0
    THEN generateJSONSchema(a[1], "")
    ELSE {[type |-> "string"]}

generateJSONSchema(example, title) ==
    LET base == ("$schema" :> Draft07) @@ [type |-> getJSONType(example)]
                @@ TitleFields(title)
    IN  CASE example.t = "object" ->
                LET v == example.o
                    sub == [key \in DOMAIN v |-> generateJSONSchema(v[key], "")]
                    props == ChoiceFns(sub)
                IN  {base @@ [properties |-> p] @@ RequiredField(r) :
                        p \in props, r \in Perms(RequiredKeys(v))}
          [] example.t = "array" ->
                {base @@ [items |-> s] : s \in ItemsSchemas(example.a)}
          [] OTHER -> {base}

\* delete(m, key)
Delete(m, key) == [x \in DOMAIN m \ {key} |-> m[x]]

(***************************************************************************)
(* The schema emitted with --json-schema: the single example's schema, or  *)
(* a oneOf over the examples in map order.                                 *)
(***************************************************************************)
OneOfMembers(examples) ==
    LET subs == ChoiceFns([k \in DOMAIN examples |->
                             generateJSONSchema(examples[k], "")])
    IN  {[i \in 1..Len(order) |-> Delete(sub[order[i]], "$schema")] :
            order \in Perms(DOMAIN examples), sub \in subs}

\* Mutant: the schema of one example is emitted whatever the number of shapes.
combineSchemas_FirstOnly(examples, title) ==
    UNION {generateJSONSchema(examples[k], title) : k \in DOMAIN examples}

\* Mutant: the single-shape case is not special-cased.
combineSchemas_AlwaysOneOf(examples, title) ==
    {("$schema" :> Draft07)
        @@ [title |-> title \o " Parameters",
            description |-> "Parameter schema for " \o title \o " workflow",
            oneOf |-> m] : m \in OneOfMembers(examples)}

combineSchemas(examples, title) ==
    IF Cardinality(DOMAIN examples) = 1
    THEN UNION {generateJSONSchema(examples[k], title) : k \in DOMAIN examples}
    ELSE {("$schema" :> Draft07)
            @@ [title |-> title \o " Parameters",
                description |-> "Parameter schema for " \o title \o " workflow",
                oneOf |-> m] : m \in OneOfMembers(examples)}

(***************************************************************************)
(* Payload texts a start event may carry in the inference model.           *)
(***************************************************************************)
InferData ==
    {"", "not json", "{\"id\":\"a\"}", "{\"id\":\"b\"}", "{\"id\":5}",
     "{\"id\":null,\"n\":1}",
     "{\"n\":1,\"tags\":[\"x\",2]}", "{\"n\":2,\"tags\":[\"y\"]}"}

(***************************************************************************)
(* The body of the loop over resp.Executions[:numToExamine].               *)
(***************************************************************************)
\* Mutant: the example is filed under its rendered content, not its skeleton.
StoreUnique_ByContent(acc, obj) ==
    LET structureJSON == getStructureJSON(obj)
        structureStr == Sprintf(obj)
    IN  IF structureStr \in DOMAIN acc.structures
        THEN acc
        ELSE [acc EXCEPT !.structures = @ @@ (structureStr :> structureJSON),
                         !.examples = @ @@ (structureStr :> obj)]

\* Mutant: a later example of a known structure replaces the stored one.
StoreUnique_LastWins(acc, obj) ==
    LET structureJSON == getStructureJSON(obj)
        structureStr == Sprintf(structureJSON)
    IN  [acc EXCEPT !.structures = (structureStr :> structureJSON) @@ @,
                    !.examples = (structureStr :> obj) @@ @]

\* Lines 1192-1199: store the structure and the example under a new key.
StoreUnique(acc, obj) ==
    LET structureJSON == getStructureJSON(obj)
        structureStr == Sprintf(structureJSON)
    IN  IF structureStr \in DOMAIN acc.structures
        THEN acc
        ELSE [acc EXCEPT !.structures = @ @@ (structureStr :> structureJSON),
                         !.examples = @ @@ (structureStr :> obj)]

\* Mutant: a payload that is not JSON discards what was collected.
ExaminePayload_DropOnBad(acc, data) ==
    IF data = "" THEN acc
    ELSE LET d == Unmarshal(data)
         IN  IF d.ok
             THEN [StoreUnique(acc, d.v) EXCEPT !.examined = @ \cup {d.v},
                                                !.found = @ + 1]
             ELSE [acc EXCEPT !.structures = EmptyMap, !.examples = EmptyMap,
                              !.skipped = @ + 1]

\* One payload: passed over when empty, skipped with a warning when not JSON.
ExaminePayload(acc, data) ==
    IF data = "" THEN acc
    ELSE LET d == Unmarshal(data)
         IN  IF d.ok
             THEN [StoreUnique(acc, d.v) EXCEPT !.examined = @ \cup {d.v},
                                                !.found = @ + 1]
             ELSE [acc EXCEPT !.skipped = @ + 1]

\* What the loop over iter.HasNext() finds for one execution: a fetch error
\* (break), no started event, a started event without Input, or a started
\* event whose Input carries n payloads.
HistoryOutcomes ==
    {[kind |-> k, n |-> 0] : k \in {"error", "no start event", "no input"}}
    \cup {[kind |-> "payloads", n |-> n] : n \in 0..MaxPayloads}

(***************************************************************************)
(* inferWorkflowParams as a state machine.                                 *)
(***************************************************************************)
LimitFlags == (-1 .. MaxLimit) \cup {DefaultLimit}
WorkflowTypes == {"ProcessOrder"}

InferInit ==
    /\ pc = "start"
    /\ limit \in LimitFlags
    /\ workflowType \in WorkflowTypes
    /\ outputAsJSONSchema \in BOOLEAN
    /\ nExec = 0
    /\ numToExamine = 0
    /\ idx = 0
    /\ fetched = {}
    /\ pending = 0
    /\ paramStructures = EmptyMap
    /\ paramExamples = EmptyMap
    /\ examined = {}
    /\ found = 0
    /\ skipped = 0
    /\ combinedSchema = EmptyMap
    /\ output = ""

\* Mutant: the limit is ignored.
NumToExamine_All(lim, n) == n

\* numToExamine := limit, lowered to len(resp.Executions).
NumToExamine(lim, n) == IF n < lim THEN n ELSE lim

\* temporalClient.ListWorkflow fails.
ListWorkflowFails ==
    /\ pc = "start"
    /\ pc' = "done"
    /\ output' = "error: failed to list workflows"
    /\ UNCHANGED <<limit, workflowType, outputAsJSONSchema, nExec, numToExamine,
                   idx, fetched, pending, paramStructures, paramExamples, examined,
                   found, skipped, combinedSchema>>
    /\ UNCHANGED <<bvars, cvars>>

\* temporalClient.ListWorkflow returns n executions; the slice expression
\* resp.Executions[:numToExamine] panics on a negative bound.
ListWorkflow ==
    /\ pc = "start"
    /\ \E n \in 0..MaxExecs :
        /\ nExec' = n
        /\ IF n = 0
           THEN /\ pc' = "done"
                /\ output' = "error: no workflows of type found"
                /\ numToExamine' = numToExamine
           ELSE /\ numToExamine' = NumToExamine(limit, n)
                /\ pc' = IF NumToExamine(limit, n) < 0 THEN "panic" ELSE "examine"
                /\ output' = output
    /\ UNCHANGED <<limit, workflowType, outputAsJSONSchema, idx, fetched,
                   pending, paramStructures, paramExamples, examined, found,
                   skipped, combinedSchema>>
    /\ UNCHANGED <<bvars, cvars>>

\* One iteration of the loop over resp.Executions[:numToExamine]: fetch the
\* history and find the start event.
GetWorkflowHistory ==
    /\ pc = "examine"
    /\ idx < numToExamine
    /\ fetched' = fetched \cup {idx + 1}
    /\ \E h \in HistoryOutcomes :
        /\ skipped' = IF h.kind = "error" THEN skipped + 1 ELSE skipped
        /\ IF h.n > 0
           THEN /\ pc' = "payloads"
                /\ pending' = h.n
                /\ idx' = idx
           ELSE /\ pc' = "examine"
                /\ pending' = 0
                /\ idx' = idx + 1
    /\ UNCHANGED <<limit, workflowType, outputAsJSONSchema, nExec, numToExamine,
                   paramStructures, paramExamples, examined, found,
                   combinedSchema, output>>
    /\ UNCHANGED <<bvars, cvars>>

\* One iteration of the loop over the start event's payloads.
ExaminePayloadStep ==
    /\ pc = "payloads"
    /\ \E data \in InferData :
        LET acc == ExaminePayload([structures |-> paramStructures,
                                   examples |-> paramExamples,
                                   examined |-> examined,
                                   found |-> found,
                                   skipped |-> skipped], data)
        IN  /\ paramStructures' = acc.structures
            /\ paramExamples' = acc.examples
            /\ examined' = acc.examined
            /\ found' = acc.found
            /\ skipped' = acc.skipped
    /\ pending' = pending - 1
    /\ pc' = IF pending = 1 THEN "examine" ELSE "payloads"
    /\ idx' = IF pending = 1 THEN idx + 1 ELSE idx
    /\ UNCHANGED <<limit, workflowType, outputAsJSONSchema, nExec, numToExamine,
                   fetched, combinedSchema, output>>
    /\ UNCHANGED <<bvars, cvars>>

\* Mutant: the report does not look at whether anything was collected.
DisplayResults_NoEmptyCheck ==
    /\ pc = "examine"
    /\ idx = numToExamine
    /\ pc' = "done"
    /\ output' = "examples"
    /\ combinedSchema' = combinedSchema
    /\ UNCHANGED <<limit, workflowType, outputAsJSONSchema, nExec, numToExamine,
                   idx, fetched, pending, paramStructures, paramExamples, examined,
                   found, skipped>>
    /\ UNCHANGED <<bvars, cvars>>

\* Lines 1219-1297: report after the loop.
DisplayResults ==
    /\ pc = "examine"
    /\ idx = numToExamine
    /\ pc' = "done"
    /\ IF Cardinality(DOMAIN paramStructures) = 0
       THEN /\ output' = "no structures found"
            /\ combinedSchema' = combinedSchema
       ELSE IF outputAsJSONSchema
       THEN /\ combinedSchema' \in combineSchemas(paramExamples, workflowType)
            /\ output' = "schema"
       ELSE /\ output' = "examples"
            /\ combinedSchema' = combinedSchema
    /\ UNCHANGED <<limit, workflowType, outputAsJSONSchema, nExec, numToExamine,
                   idx, fetched, pending, paramStructures, paramExamples, examined,
                   found, skipped>>
    /\ UNCHANGED <<bvars, cvars>>

InferNext ==
    \/ ListWorkflowFails
    \/ ListWorkflow
    \/ GetWorkflowHistory
    \/ ExaminePayloadStep
    \/ DisplayResults

\* No response: before ListWorkflow is called and after
\* inferWorkflowSchemaForType has returned.
NoResp == [err |-> FALSE, Executions |-> <<>>]

BuildIdle ==
    /\ bpc = "idle"
    /\ schema = EmptyMap
    /\ jsonObj = JNull
    /\ stack = <<>>
    /\ ret = [set |-> FALSE, v |-> JNull]
    /\ consumed = <<>>
    /\ errors = 0
    /\ inputData = JNull
    /\ readers = 0
    /\ resp = NoResp

\* No command of the third machine runs.
CmdIdle ==
    /\ command = "none"
    /\ cpc = "idle"
    /\ config = [WorkflowID |-> ""]
    /\ flagWorkflowID = ""
    /\ interactive = FALSE
    /\ inputFlag = ""
    /\ stdin = [err |-> FALSE, text |-> ""]
    /\ temporalClient = FALSE
    /\ workflowID = ""
    /\ generated = FALSE
    /\ payload = ""
    /\ calls = <<>>
    /\ returned = ""

Init == InferInit /\ BuildIdle /\ CmdIdle

Next == InferNext

Spec == Init /\ [][Next]_vars

(***************************************************************************)
(* The console.  Each scanner.Scan() on the terminal yields the next line  *)
(* typed; after MaxInputs lines the input is at its end, where Scan fails  *)
(* and scanner.Text() is the empty string.                                 *)
(***************************************************************************)
\* Lines typed in a session that fills in the fields of an inferred schema,
\* and in a session that has no schema and works through the type menus.
FieldLines == {"", " ", "a", "b", "42", "No", "Yes", "6"}
MenuLines == {"", " ", "a", "Yes", "1", "2", "3", "4", "5", "6", "7", "8"}
Lines == IF schema = EmptyMap THEN MenuLines ELSE FieldLines

AtEOF ==
    Len(consumed) >= (IF schema = EmptyMap THEN MaxMenuInputs ELSE MaxInputs)
Available == IF AtEOF THEN {""} ELSE Lines
Consume(line) == IF AtEOF THEN consumed ELSE Append(consumed, line)

\* strings.TrimSpace on the lines of the model.
TrimSpace(line) == IF line = " " THEN "" ELSE line

\* strings.ToLower on the lines of the model.
ToLower(line) ==
    CASE line = "Yes" -> "yes"
      [] line = "No" -> "no"
      [] OTHER -> line

\* strconv.ParseFloat(input, 64) on the lines of the model.
ParseFloat(input) ==
    CASE input = "42" -> [ok |-> TRUE, num |-> 42]
      [] input = "1" -> [ok |-> TRUE, num |-> 1]
      [] input = "2" -> [ok |-> TRUE, num |-> 2]
      [] input = "3" -> [ok |-> TRUE, num |-> 3]
      [] input = "4" -> [ok |-> TRUE, num |-> 4]
      [] input = "5" -> [ok |-> TRUE, num |-> 5]
      [] input = "6" -> [ok |-> TRUE, num |-> 6]
      [] input = "7" -> [ok |-> TRUE, num |-> 7]
      [] input = "8" -> [ok |-> TRUE, num |-> 8]
      [] OTHER -> [ok |-> FALSE, num |-> 0]

IsTrueWord(lowerInput) == lowerInput \in {"true", "yes", "y"}
IsFalseWord(lowerInput) == lowerInput \in {"false", "no", "n"}

\* One more "Error:" line on the console.
Report(n) == IF n < MaxErrors THEN n + 1 ELSE n

\* One more bufio.NewScanner(os.Stdin).
NewScanner(n) == IF n < MaxReaders THEN n + 1 ELSE n

\* The readers after a call that runs frame f: buildInputInteractively
\* creates its own (line 670), the other builders create none on entry.
Entering(f) == IF f.fn = "generic" THEN NewScanner(readers) ELSE readers

(***************************************************************************)
(* Call stack of the builders.                                             *)
(***************************************************************************)
Top == stack[Len(stack)]
Pop == SubSeq(stack, 1, Len(stack) - 1)
ReplaceTop(f) == [stack EXCEPT ![Len(stack)] = f]
Running == bpc = "build" /\ stack # <<>>

\* Elements of a sequence.
Range(seq) == {seq[i] : i \in 1..Len(seq)}

\* buildInputInteractively: the menu of the free-form builder.
GenericFrame == [fn |-> "generic", at |-> "menu"]

\* buildObjectInteractively
ObjectFrame == [fn |-> "object", result |-> EmptyMap, key |-> "", at |-> "key"]

\* buildArrayInteractivelyGeneric
GArrayFrame == [fn |-> "garray", result |-> <<>>, i |-> 1, at |-> "menu"]

\* buildArrayInteractively(itemSchema)
ArrayFrame(itemSchema) ==
    [fn |-> "array", itemSchema |-> itemSchema, result |-> <<>>, i |-> 1,
     at |-> "loop"]

\* Mutant: a schema without properties is walked as an object without fields.
EnterFromSchema_NoFallback(s) ==
    [fn |-> "fromSchema", schema |-> s, result |-> EmptyMap,
     todo |-> {}, field |-> "", at |-> "loop"]

\* buildInputInteractivelyFromSchema(schema): without schema or without
\* properties the call is the free-form builder.
EnterFromSchema(s) ==
    IF s = EmptyMap \/ "properties" \notin DOMAIN s
    THEN GenericFrame
    ELSE [fn |-> "fromSchema", schema |-> s, result |-> EmptyMap,
          todo |-> DOMAIN s.properties, field |-> "", at |-> "loop"]

TypeOf(s) == IF "type" \in DOMAIN s THEN s.type ELSE ""

\* fieldSchemaObj["items"], or the string default.
ItemsOf(s) == IF "items" \in DOMAIN s THEN s.items ELSE [type |-> "string"]

\* required[fieldName]
IsRequired(s, fieldName) ==
    "required" \in DOMAIN s /\ fieldName \in Range(s.required)

\* Mutant: every value is stored.
StoreField_Always(result, fieldName, value) == (fieldName :> value) @@ result

\* Lines 561-564: a value is stored unless it is nil or the empty string.
StoreField(result, fieldName, value) ==
    IF value # JNull /\ value # JStr("")
    THEN (fieldName :> value) @@ result
    ELSE result

\* A builder returns v to its caller.
Return(v) ==
    /\ stack' = Pop
    /\ ret' = [set |-> TRUE, v |-> v]

NoRet == [set |-> FALSE, v |-> JNull]

(***************************************************************************)
(* promptForInput and the per-type handling of one answer to a field       *)
(* prompt (lines 519-559).  The outcome says whether the prompt repeats,   *)
(* whether an error line was printed, and the value obtained.              *)
(***************************************************************************)
\* Mutant: an empty answer is asked again whether required or not.
PromptRepeats_Always(input, required) == input = ""

\* Mutant: an empty answer is accepted for a required field.
PromptRepeats_Never(input, required) == FALSE

\* promptForInput repeats while a required answer is empty.
PromptRepeats(input, required) == input = "" /\ required

Again == [again |-> TRUE, err |-> TRUE, value |-> JNull]
Got(value) == [again |-> FALSE, err |-> FALSE, value |-> value]

\* Mutant: an answer that does not parse ends the prompt without a value.
NumberAnswer_NoRetry(input, isRequired) ==
    IF input = "" /\ ~isRequired THEN Got(JNull)
    ELSE IF ParseFloat(input).ok THEN Got(JNum(ParseFloat(input).num))
    ELSE [again |-> FALSE, err |-> TRUE, value |-> JNull]

NumberAnswer(input, isRequired) ==
    IF input = "" /\ ~isRequired THEN Got(JNull)
    ELSE IF ParseFloat(input).ok THEN Got(JNum(ParseFloat(input).num))
    ELSE Again

\* Mutant: the words are compared as typed.
BooleanAnswer_CaseSensitive(input, isRequired) ==
    IF input = "" /\ ~isRequired THEN Got(JNull)
    ELSE IF IsTrueWord(input) THEN Got(JBool(TRUE))
    ELSE IF IsFalseWord(input) THEN Got(JBool(FALSE))
    ELSE Again

\* Lines 537-554: the answer to the prompt of a boolean field.
BooleanAnswer(input, isRequired) ==
    IF input = "" /\ ~isRequired THEN Got(JNull)
    ELSE IF IsTrueWord(ToLower(input)) THEN Got(JBool(TRUE))
    ELSE IF IsFalseWord(ToLower(input)) THEN Got(JBool(FALSE))
    ELSE Again

\* Mutant: a field of a type the switch does not name gets no value.
FieldAnswer_OtherDropped(fieldType, isRequired, line) ==
    LET input == TrimSpace(line)
    IN  IF PromptRepeats(input, isRequired) THEN Again
        ELSE CASE fieldType = "string" -> Got(JStr(input))
               [] fieldType \in {"number", "integer"} ->
                    NumberAnswer(input, isRequired)
               [] fieldType = "boolean" -> BooleanAnswer(input, isRequired)
               [] OTHER -> Got(JNull)

FieldAnswer(fieldType, isRequired, line) ==
    LET input == TrimSpace(line)
    IN  IF PromptRepeats(input, isRequired) THEN Again
        ELSE CASE fieldType = "string" -> Got(JStr(input))
               [] fieldType \in {"number", "integer"} ->
                    NumberAnswer(input, isRequired)
               [] fieldType = "boolean" -> BooleanAnswer(input, isRequired)
               [] OTHER -> Got(JStr(input))

(***************************************************************************)
(* One answer to an item prompt of buildArrayInteractively (lines          *)
(* 611-663): the loop ends, or an item is appended, or the item is skipped *)
(* with an error line.                                                     *)
(***************************************************************************)
ItemDone == [done |-> TRUE, append |-> FALSE, err |-> FALSE, item |-> JNull]
ItemAppend(item, err) ==
    [done |-> FALSE, append |-> TRUE, err |-> err, item |-> item]
ItemSkip == [done |-> FALSE, append |-> FALSE, err |-> TRUE, item |-> JNull]

ItemAnswer(itemType, line) ==
    LET input == TrimSpace(line)
    IN  IF input = "" THEN ItemDone
        ELSE CASE itemType \in {"number", "integer"} ->
                    IF ParseFloat(input).ok
                    THEN ItemAppend(JNum(ParseFloat(input).num), FALSE)
                    ELSE ItemSkip
               [] itemType = "boolean" ->
                    IF IsTrueWord(ToLower(input))
                    THEN ItemAppend(JBool(TRUE), FALSE)
                    ELSE IF IsFalseWord(ToLower(input))
                    THEN ItemAppend(JBool(FALSE), FALSE)
                    \* the error is printed and the nil item is appended
                    ELSE ItemAppend(JNull, TRUE)
               [] OTHER -> ItemAppend(JStr(input), FALSE)

\* Mutant: an empty nested item is appended like any other.
NestedItem_KeepEmpty(itemType, v) == ItemAppend(v, FALSE)

\* Lines 588-609: what becomes of the value a nested builder returned.
NestedItem(itemType, v) ==
    IF itemType = "object"
    THEN IF v.t = "object" /\ DOMAIN v.o = {}
         THEN ItemDone ELSE ItemAppend(v, FALSE)
    ELSE IF Len(v.a) = 0 THEN ItemDone ELSE ItemAppend(v, FALSE)

(***************************************************************************)
(* startWorkflow --interactive.                                            *)
(***************************************************************************)
StartData ==
    {"", "not json", "{\"n\":1}", "{\"id\":\"a\"}", "{\"ok\":true}",
     "{\"id\":null}", "{\"id\":null,\"n\":1}", "{\"o\":{\"ok\":false}}",
     "{\"o\":{}}", "{\"tags\":[]}", "{\"tags\":[1]}", "{\"tags\":[true]}",
     "{\"tags\":[\"y\"]}", "{\"tags\":[{\"id\":null}]}",
     "{\"tags\":[{\"n\":1}]}", "{\"tags\":[[\"x\"]]}", "\"s\"", "[5,\"x\"]"}

\* Lines 444-455: the first payload that is non-empty JSON.
RECURSIVE FirstDecoded(_)
FirstDecoded(payloads) ==
    IF payloads = <<>> THEN BadJSON
    ELSE IF Head(payloads) # "" /\ Unmarshal(Head(payloads)).ok
    THEN Unmarshal(Head(payloads))
    ELSE FirstDecoded(Tail(payloads))

InferOff ==
    /\ pc = "off"
    /\ limit = DefaultLimit
    /\ workflowType \in WorkflowTypes
    /\ outputAsJSONSchema = FALSE
    /\ nExec = 0
    /\ numToExamine = 0
    /\ idx = 0
    /\ fetched = {}
    /\ pending = 0
    /\ paramStructures = EmptyMap
    /\ paramExamples = EmptyMap
    /\ examined = {}
    /\ found = 0
    /\ skipped = 0
    /\ combinedSchema = EmptyMap
    /\ output = ""

BuildInit ==
    /\ bpc = "start"
    /\ schema = EmptyMap
    /\ jsonObj = JNull
    /\ stack = <<>>
    /\ ret = NoRet
    /\ consumed = <<>>
    /\ errors = 0
    /\ inputData = JNull
    /\ readers = 0
    /\ resp = NoResp

\* One listed execution, as GetWorkflowHistory shows it: the history cannot
\* be fetched, or it gives the payloads of the start event (none when the
\* history has no start event or the event has no input).
HistoryError == [err |-> TRUE, payloads |-> <<>>]
History(payloads) == [err |-> FALSE, payloads |-> payloads]

\* Histories of the first listed execution, and of the executions after it.
FirstHistories ==
    {HistoryError} \cup
    {History(p) : p \in UNION {[1..n -> StartData] : n \in 0..MaxPayloads}}
LaterHistories == {History(<<d>>) : d \in {"", "not json", "{\"n\":1}"}}

\* What ListWorkflow answers: an error, or up to MaxListed executions.
ListResponses ==
    {[err |-> TRUE, Executions |-> <<>>]} \cup
    {[err |-> FALSE, Executions |-> e] :
        e \in {<<>>} \cup
               {<<h>> \o later :
                   h \in FirstHistories,
                   later \in UNION {[1..n -> LaterHistories] :
                                       n \in 0..(MaxListed - 1)}}}

\* Lines 410-415: inferWorkflowSchemaForType lists the executions of the
\* workflow type.
ListForSchema ==
    /\ bpc = "start"
    /\ resp' \in ListResponses
    /\ bpc' = "infer"
    /\ UNCHANGED <<schema, jsonObj, stack, ret, consumed, errors, inputData,
                   readers>>
    /\ UNCHANGED <<ivars, cvars>>

\* Lines 416-437: the list fails, is empty, or the history of the first
\* execution cannot be fetched.
NoFirstHistory(r) ==
    IF r.err \/ r.Executions = <<>> THEN TRUE ELSE r.Executions[1].err

\* inferWorkflowSchemaForType fails (list error, no executions, history
\* error of the first execution): the free-form builder is run.
InferSchemaFails ==
    /\ bpc = "infer"
    /\ NoFirstHistory(resp)
    /\ bpc' = "build"
    /\ stack' = <<GenericFrame>>
    /\ resp' = NoResp
    /\ UNCHANGED <<schema, jsonObj, ret, consumed, errors, inputData>>
    /\ readers' = NewScanner(readers)
    /\ UNCHANGED <<ivars, cvars>>

\* inferWorkflowSchemaForType reads the payloads of the first execution's
\* start event; without a payload that decodes it fails as well.
InferSchemaForType ==
    /\ bpc = "infer"
    /\ ~NoFirstHistory(resp)
    /\ LET d == FirstDecoded(resp.Executions[1].payloads)
       IN  IF d.ok
           THEN /\ jsonObj' = d.v
                /\ \E s \in generateJSONSchema(d.v, "") :
                       /\ schema' = s
                       /\ stack' = <<EnterFromSchema(s)>>
           ELSE /\ jsonObj' = jsonObj
                /\ schema' = schema
                /\ stack' = <<GenericFrame>>
    /\ bpc' = "build"
    /\ resp' = NoResp
    /\ UNCHANGED <<ret, consumed, errors, inputData>>
    /\ readers' = Entering(stack'[1])
    /\ UNCHANGED <<ivars, cvars>>

(***************************************************************************)
(* buildInputInteractivelyFromSchema                                       *)
(***************************************************************************)
\* Head of the loop over properties: the next field, in map order.
NextField ==
    /\ Running
    /\ Top.fn = "fromSchema" /\ Top.at = "loop"
    /\ \E fieldName \in Top.todo :
        LET fieldSchemaObj == Top.schema.properties[fieldName]
            fieldType == TypeOf(fieldSchemaObj)
            f == [Top EXCEPT !.todo = @ \ {fieldName}, !.field = fieldName]
        IN  stack' =
                CASE fieldType = "object" ->
                        Append(ReplaceTop([f EXCEPT !.at = "call"]),
                               EnterFromSchema(fieldSchemaObj))
                  [] fieldType = "array" ->
                        Append(ReplaceTop([f EXCEPT !.at = "call"]),
                               ArrayFrame(ItemsOf(fieldSchemaObj)))
                  [] OTHER -> ReplaceTop([f EXCEPT !.at = "prompt"])
    /\ UNCHANGED <<bpc, schema, jsonObj, ret, consumed, errors, inputData>>
    \* a leaf field: promptForInput is entered and creates its reader
    /\ readers' = IF stack'[Len(stack')].at = "prompt" THEN NewScanner(readers)
                  ELSE Entering(stack'[Len(stack')])
    /\ UNCHANGED <<ivars, cvars, resp>>

\* One line read by promptForInput for a string, number or boolean field.
FieldPrompt ==
    /\ Running
    /\ Top.fn = "fromSchema" /\ Top.at = "prompt"
    /\ \E line \in Available :
        LET a == FieldAnswer(TypeOf(Top.schema.properties[Top.field]),
                             IsRequired(Top.schema, Top.field), line)
        IN  /\ consumed' = Consume(line)
            /\ errors' = IF a.err THEN Report(errors) ELSE errors
            /\ readers' = IF a.again /\ ~PromptRepeats(TrimSpace(line),
                                        IsRequired(Top.schema, Top.field))
                           THEN NewScanner(readers) ELSE readers
            /\ stack' = IF a.again THEN stack
                        ELSE ReplaceTop([Top EXCEPT
                                !.result = StoreField(@, Top.field, a.value),
                                !.at = "loop"])
    /\ UNCHANGED <<bpc, schema, jsonObj, ret, inputData>>
    /\ UNCHANGED <<ivars, cvars, resp>>

\* The nested object or array of a field has been built.
FieldReturn ==
    /\ bpc = "build" /\ stack # <<>>
    /\ Top.fn = "fromSchema" /\ Top.at = "call"
    /\ ret.set
    /\ stack' = ReplaceTop([Top EXCEPT
                    !.result = StoreField(@, Top.field, ret.v),
                    !.at = "loop"])
    /\ ret' = NoRet
    /\ UNCHANGED <<bpc, schema, jsonObj, consumed, errors, inputData>>
    /\ UNCHANGED <<ivars, cvars, readers, resp>>

\* All properties visited: return result.
FromSchemaReturn ==
    /\ Running
    /\ Top.fn = "fromSchema" /\ Top.at = "loop" /\ Top.todo = {}
    /\ Return(JObj(Top.result))
    /\ UNCHANGED <<bpc, schema, jsonObj, consumed, errors, inputData>>
    /\ UNCHANGED <<ivars, cvars, readers, resp>>

(***************************************************************************)
(* buildArrayInteractively                                                 *)
(***************************************************************************)
\* "Item i": object and array items are built by a nested call.
ArrayItemCall ==
    /\ Running
    /\ Top.fn = "array" /\ Top.at = "loop"
    /\ TypeOf(Top.itemSchema) \in {"object", "array"}
    /\ stack' = Append(ReplaceTop([Top EXCEPT !.at = "call"]),
                       IF TypeOf(Top.itemSchema) = "object"
                       THEN EnterFromSchema(Top.itemSchema)
                       ELSE ArrayFrame(ItemsOf(Top.itemSchema)))
    /\ UNCHANGED <<bpc, schema, jsonObj, ret, consumed, errors, inputData>>
    /\ readers' = Entering(stack'[Len(stack')])
    /\ UNCHANGED <<ivars, cvars, resp>>

\* Mutant: a new item is put in front of the earlier ones.
ArrayOutcome_Prepend(o) ==
    IF o.done
    THEN Return(JArr(Top.result))
    ELSE /\ stack' = ReplaceTop([Top EXCEPT
                        !.result = IF o.append THEN <<o.item>> \o @ ELSE @,
                        !.i = @ + 1,
                        !.at = "loop"])
         /\ ret' = NoRet

\* Applies the outcome of one item to the array frame on top of the stack.
ArrayOutcome(o) ==
    IF o.done
    THEN Return(JArr(Top.result))
    ELSE /\ stack' = ReplaceTop([Top EXCEPT
                        !.result = IF o.append THEN Append(@, o.item) ELSE @,
                        !.i = @ + 1,
                        !.at = "loop"])
         /\ ret' = NoRet

\* The nested builder of an item has returned.
ArrayItemReturn ==
    /\ bpc = "build" /\ stack # <<>>
    /\ Top.fn = "array" /\ Top.at = "call"
    /\ ret.set
    /\ ArrayOutcome(NestedItem(TypeOf(Top.itemSchema), ret.v))
    /\ UNCHANGED <<bpc, schema, jsonObj, consumed, errors, inputData>>
    /\ UNCHANGED <<ivars, cvars, readers, resp>>

\* "Item i": one line read for a string, number or boolean item.
ArrayPrompt ==
    /\ Running
    /\ Top.fn = "array" /\ Top.at = "loop"
    /\ TypeOf(Top.itemSchema) \notin {"object", "array"}
    /\ \E line \in Available :
        LET o == ItemAnswer(TypeOf(Top.itemSchema), line)
        IN  /\ consumed' = Consume(line)
            /\ errors' = IF o.err THEN Report(errors) ELSE errors
            /\ ArrayOutcome(o)
    /\ UNCHANGED <<bpc, schema, jsonObj, inputData>>
    /\ readers' = NewScanner(readers)
    /\ UNCHANGED <<ivars, cvars, resp>>

(***************************************************************************)
(* buildInputInteractively: the free-form builder.                         *)
(***************************************************************************)
\* The value kinds read with one more line.
ValueKind(choice) ==
    CASE choice = "3" -> "string" [] choice = "4" -> "number"
      [] choice = "5" -> "boolean"

\* Mutant: the string value is trimmed.
ValueAnswer_Trimmed(kind, line) ==
    CASE kind = "string" -> Got(JStr(TrimSpace(line)))
      [] kind = "number" ->
            IF ParseFloat(TrimSpace(line)).ok
            THEN Got(JNum(ParseFloat(TrimSpace(line)).num))
            ELSE Again
      [] kind = "boolean" ->
            IF IsTrueWord(ToLower(TrimSpace(line))) THEN Got(JBool(TRUE))
            ELSE IF IsFalseWord(ToLower(TrimSpace(line))) THEN Got(JBool(FALSE))
            ELSE Again

\* One line read after "Enter string / number / boolean value".
ValueAnswer(kind, line) ==
    CASE kind = "string" -> Got(JStr(line))
      [] kind = "number" ->
            IF ParseFloat(TrimSpace(line)).ok
            THEN Got(JNum(ParseFloat(TrimSpace(line)).num))
            ELSE Again
      [] kind = "boolean" ->
            IF IsTrueWord(ToLower(TrimSpace(line))) THEN Got(JBool(TRUE))
            ELSE IF IsFalseWord(ToLower(TrimSpace(line))) THEN Got(JBool(FALSE))
            ELSE Again

\* "Enter your choice (1-8)".
GenericMenu ==
    /\ Running
    /\ Top.fn = "generic" /\ Top.at = "menu"
    /\ \E line \in Available :
        LET choice == TrimSpace(line)
        IN  /\ consumed' = Consume(line)
            /\ errors' = IF choice \in {"1", "2", "3", "4", "5", "6", "7", "8"}
                         THEN errors ELSE Report(errors)
            /\ CASE choice = "1" ->
                        stack' = ReplaceTop(ObjectFrame) /\ ret' = ret
                 [] choice = "2" ->
                        stack' = ReplaceTop(GArrayFrame) /\ ret' = ret
                 [] choice \in {"3", "4", "5"} ->
                        /\ stack' = ReplaceTop([Top EXCEPT !.at = ValueKind(choice)])
                        /\ ret' = ret
                 [] choice = "6" -> Return(JObj(EmptyMap))
                 [] choice = "7" -> Return(JArr(<<>>))
                 [] choice = "8" -> Return(JNull)
                 [] OTHER -> UNCHANGED <<stack, ret>>
    /\ UNCHANGED <<bpc, schema, jsonObj, inputData>>
    /\ UNCHANGED <<ivars, cvars, readers, resp>>

\* The line holding the string, number or boolean value.
GenericValue ==
    /\ Running
    /\ Top.fn = "generic" /\ Top.at \in {"string", "number", "boolean"}
    /\ \E line \in Available :
        LET a == ValueAnswer(Top.at, line)
        IN  /\ consumed' = Consume(line)
            /\ errors' = IF a.err THEN Report(errors) ELSE errors
            /\ IF a.again THEN UNCHANGED <<stack, ret>> ELSE Return(a.value)
    /\ UNCHANGED <<bpc, schema, jsonObj, inputData>>
    /\ UNCHANGED <<ivars, cvars, readers, resp>>

(***************************************************************************)
(* buildObjectInteractively                                                *)
(***************************************************************************)
\* "Enter field name (or empty to finish)".
ObjectKey ==
    /\ Running
    /\ Top.fn = "object" /\ Top.at = "key"
    /\ \E line \in Available :
        LET key == TrimSpace(line)
        IN  /\ consumed' = Consume(line)
            /\ IF key = ""
               THEN Return(JObj(Top.result))
               ELSE /\ stack' = Append(ReplaceTop([Top EXCEPT !.key = key,
                                                              !.at = "call"]),
                                       GenericFrame)
                    /\ ret' = ret
    /\ UNCHANGED <<bpc, schema, jsonObj, errors, inputData>>
    /\ readers' = IF Len(stack') > Len(stack) THEN NewScanner(readers) ELSE readers
    /\ UNCHANGED <<ivars, cvars, resp>>

\* Mutant: a name entered again keeps its first value.
ObjectValueReturn_KeepFirst ==
    /\ bpc = "build" /\ stack # <<>>
    /\ Top.fn = "object" /\ Top.at = "call"
    /\ ret.set
    /\ stack' = ReplaceTop([Top EXCEPT !.result = @ @@ (Top.key :> ret.v),
                                       !.at = "key"])
    /\ ret' = NoRet
    /\ UNCHANGED <<bpc, schema, jsonObj, consumed, errors, inputData>>
    /\ UNCHANGED <<ivars, cvars, readers, resp>>

\* result[key] = value
ObjectValueReturn ==
    /\ bpc = "build" /\ stack # <<>>
    /\ Top.fn = "object" /\ Top.at = "call"
    /\ ret.set
    /\ stack' = ReplaceTop([Top EXCEPT !.result = (Top.key :> ret.v) @@ @,
                                       !.at = "key"])
    /\ ret' = NoRet
    /\ UNCHANGED <<bpc, schema, jsonObj, consumed, errors, inputData>>
    /\ UNCHANGED <<ivars, cvars, readers, resp>>

(***************************************************************************)
(* buildArrayInteractivelyGeneric                                          *)
(***************************************************************************)
\* Mutant: the item number stays when a value is appended.
GArrayAppend_NoAdvance(value) ==
    ReplaceTop([Top EXCEPT !.result = Append(@, value), !.at = "menu"])

\* result = append(result, value), next item.
GArrayAppend(value) ==
    ReplaceTop([Top EXCEPT !.result = Append(@, value), !.i = @ + 1,
                           !.at = "menu"])

\* "Item i", "Enter your choice (1-7)".
GArrayMenu ==
    /\ Running
    /\ Top.fn = "garray" /\ Top.at = "menu"
    /\ \E line \in Available :
        LET choice == TrimSpace(line)
        IN  /\ consumed' = Consume(line)
            /\ errors' = IF choice \in {"1", "2", "3", "4", "5", "6", "7"}
                         THEN errors ELSE Report(errors)
            /\ CASE choice = "7" -> Return(JArr(Top.result))
                 [] choice = "1" ->
                        /\ stack' = Append(ReplaceTop([Top EXCEPT !.at = "call"]),
                                           ObjectFrame)
                        /\ ret' = ret
                 [] choice = "2" ->
                        /\ stack' = Append(ReplaceTop([Top EXCEPT !.at = "call"]),
                                           GArrayFrame)
                        /\ ret' = ret
                 [] choice \in {"3", "4", "5"} ->
                        /\ stack' = ReplaceTop([Top EXCEPT !.at = ValueKind(choice)])
                        /\ ret' = ret
                 [] choice = "6" -> stack' = GArrayAppend(JNull) /\ ret' = ret
                 [] OTHER -> UNCHANGED <<stack, ret>>
    /\ UNCHANGED <<bpc, schema, jsonObj, inputData>>
    /\ UNCHANGED <<ivars, cvars, readers, resp>>

\* The line holding the string, number or boolean item.
GArrayValue ==
    /\ Running
    /\ Top.fn = "garray" /\ Top.at \in {"string", "number", "boolean"}
    /\ \E line \in Available :
        LET a == ValueAnswer(Top.at, line)
        IN  /\ consumed' = Consume(line)
            /\ errors' = IF a.err THEN Report(errors) ELSE errors
            /\ stack' = IF a.again THEN stack ELSE GArrayAppend(a.value)
    /\ UNCHANGED <<bpc, schema, jsonObj, ret, inputData>>
    /\ UNCHANGED <<ivars, cvars, readers, resp>>

\* The nested object or array item has been built.
GArrayReturn ==
    /\ bpc = "build" /\ stack # <<>>
    /\ Top.fn = "garray" /\ Top.at = "call"
    /\ ret.set
    /\ stack' = GArrayAppend(ret.v)
    /\ ret' = NoRet
    /\ UNCHANGED <<bpc, schema, jsonObj, consumed, errors, inputData>>
    /\ UNCHANGED <<ivars, cvars, readers, resp>>

(***************************************************************************)
(* startWorkflow after the builder: show the input, confirm, execute.      *)
(***************************************************************************)
\* inputData = build...(...)
BuildDone ==
    /\ bpc = "build" /\ stack = <<>> /\ ret.set
    /\ inputData' = ret.v
    /\ ret' = NoRet
    /\ bpc' = "confirm"
    /\ UNCHANGED <<schema, jsonObj, stack, consumed, errors>>
    /\ UNCHANGED <<ivars, cvars, readers, resp>>

\* Mutant: every answer confirms.
Confirmed_Always(line) == TRUE

\* confirmAction: y or yes starts the workflow, anything else cancels.
Confirmed(line) == ToLower(TrimSpace(line)) \in {"y", "yes"}

ConfirmAction ==
    /\ bpc = "confirm"
    /\ \E line \in Available :
        /\ consumed' = Consume(line)
        /\ bpc' = IF Confirmed(line) THEN "executed" ELSE "canceled"
    /\ UNCHANGED <<schema, jsonObj, stack, ret, errors, inputData>>
    /\ readers' = NewScanner(readers)
    /\ UNCHANGED <<ivars, cvars, resp>>

BuildNext ==
    \/ ListForSchema
    \/ InferSchemaFails
    \/ InferSchemaForType
    \/ NextField
    \/ FieldPrompt
    \/ FieldReturn
    \/ FromSchemaReturn
    \/ ArrayItemCall
    \/ ArrayItemReturn
    \/ ArrayPrompt
    \/ GenericMenu
    \/ GenericValue
    \/ ObjectKey
    \/ ObjectValueReturn
    \/ GArrayMenu
    \/ GArrayValue
    \/ GArrayReturn
    \/ BuildDone
    \/ ConfirmAction

InitBuild == InferOff /\ BuildInit /\ CmdIdle

SpecBuild == InitBuild /\ [][BuildNext]_vars

(***************************************************************************)
(* start, signal, query and describe: the workflow ID of the command, the  *)
(* Temporal client it creates and the calls it makes on it.  The builders  *)
(* of start --interactive are SpecBuild's; here they are their outcome:    *)
(* a document and the answer to the confirmation.                          *)
(***************************************************************************)
Commands == {"start", "signal", "query", "describe"}

\* Values of the global --workflow-id flag and of start's own flag.
WorkflowIDs == {"", "order-1"}
FlagWorkflowIDs == {"", "order-2"}

\* Values of --input and --args; "-" reads standard input.
InputFlags == {"{}", "{\"n\":1}", "-"}
NoStdin == [err |-> FALSE, text |-> ""]
Stdins ==
    {[err |-> TRUE, text |-> ""]} \cup
    {[err |-> FALSE, text |-> t] : t \in {"", " ", "{\"n\":1}"}}

\* Documents the interactive builders hand back, marshalled.
BuiltInputs == {"null", "{}"}

CmdInit ==
    /\ command \in Commands
    /\ cpc = IF command = "start" THEN "client" ELSE "check"
    /\ config \in [WorkflowID : WorkflowIDs]
    /\ flagWorkflowID \in IF command = "start" THEN FlagWorkflowIDs ELSE {""}
    /\ interactive \in IF command = "start" THEN BOOLEAN ELSE {FALSE}
    /\ inputFlag \in IF command = "describe" THEN {""} ELSE InputFlags
    /\ stdin \in IF inputFlag = "-" /\ ~interactive THEN Stdins ELSE {NoStdin}
    /\ temporalClient = FALSE
    /\ workflowID = ""
    /\ generated = FALSE
    /\ payload = ""
    /\ calls = <<>>
    /\ returned = ""

\* The handler returns err.
Fail(err) ==
    /\ returned' = err
    /\ cpc' = "done"

\* Mutant: a missing workflow ID is let through.
MissingWorkflowID_Never(cfg) == FALSE

\* Lines 863, 916, 975: config.WorkflowID == "".
MissingWorkflowID(cfg) == cfg.WorkflowID = ""

\* Lines 864, 917, 976: the error of each command.
RequiredError(cmd) ==
    CASE cmd = "signal" -> "workflow ID is required for signaling"
      [] cmd = "query" -> "workflow ID is required for querying"
      [] OTHER -> "workflow ID is required"

\* signalWorkflow, queryWorkflow, describeWorkflow: the first statement.
RequireWorkflowID ==
    /\ cpc = "check"
    /\ IF MissingWorkflowID(config)
       THEN Fail(RequiredError(command))
       ELSE cpc' = "client" /\ returned' = returned
    /\ UNCHANGED <<command, config, flagWorkflowID, interactive, inputFlag,
                   stdin, temporalClient, workflowID, generated, payload,
                   calls>>
    /\ UNCHANGED <<ivars, bvars>>

\* getTemporalClient(config): a client, or an error.
GetTemporalClient ==
    /\ cpc = "client"
    /\ \/ /\ temporalClient' = TRUE
          /\ cpc' = IF command = "start" THEN "id"
                    ELSE IF command = "describe" THEN "call" ELSE "input"
          /\ returned' = returned
       \/ /\ temporalClient' = temporalClient
          /\ Fail("failed to create Temporal client")
    /\ UNCHANGED <<command, config, flagWorkflowID, interactive, inputFlag,
                   stdin, workflowID, generated, payload, calls>>
    /\ UNCHANGED <<ivars, bvars>>

\* fmt.Sprintf("workflow-%d", time.Now().Unix())
AutoID(unix) == "workflow-" \o FormatFloat(unix)

\* Mutant: the global workflow ID is looked at first.
StartWorkflowID_GlobalFirst(flagID, globalID, unix) ==
    IF globalID # "" THEN globalID
    ELSE IF flagID # "" THEN flagID
    ELSE AutoID(unix)

\* Lines 310-315: the command's flag, else the global flag.
GlobalFallback(flagID, globalID) == IF flagID = "" THEN globalID ELSE flagID

\* Lines 309-321: the command's flag, else the global flag, else a
\* generated ID.
StartWorkflowID(flagID, globalID, unix) ==
    IF GlobalFallback(flagID, globalID) = "" THEN AutoID(unix)
    ELSE GlobalFallback(flagID, globalID)

ResolveWorkflowID ==
    /\ cpc = "id"
    /\ \E unix \in 0..MaxUnix :
        /\ workflowID' = StartWorkflowID(flagWorkflowID, config.WorkflowID, unix)
        /\ generated' = (GlobalFallback(flagWorkflowID, config.WorkflowID) = "")
    /\ cpc' = IF interactive THEN "interactive" ELSE "input"
    /\ UNCHANGED <<command, config, flagWorkflowID, interactive, inputFlag,
                   stdin, temporalClient, payload, calls, returned>>
    /\ UNCHANGED <<ivars, bvars>>

\* Lines 327-359: the document of the builders is marshalled and shown; the
\* workflow is started only when the user confirms.
InteractiveInput ==
    /\ cpc = "interactive"
    /\ \E doc \in BuiltInputs, confirmed \in BOOLEAN :
        /\ payload' = doc
        /\ IF confirmed
           THEN cpc' = "call" /\ returned' = returned
           ELSE Fail("workflow start canceled by user")
    /\ UNCHANGED <<command, config, flagWorkflowID, interactive, inputFlag,
                   stdin, temporalClient, workflowID, generated, calls>>
    /\ UNCHANGED <<ivars, bvars>>

\* Lines 361-386, 878-902, 931-955: the flag's value, or standard input
\* read to its end, "{}" when that is blank.
ReadInput ==
    /\ cpc = "input"
    /\ IF inputFlag = "-"
       THEN IF stdin.err
            THEN payload' = payload /\ Fail("error reading from stdin")
            ELSE /\ payload' = IF TrimSpace(stdin.text) = "" THEN "{}"
                               ELSE stdin.text
                 /\ cpc' = "call" /\ returned' = returned
       ELSE payload' = inputFlag /\ cpc' = "call" /\ returned' = returned
    /\ UNCHANGED <<command, config, flagWorkflowID, interactive, inputFlag,
                   stdin, temporalClient, workflowID, generated, calls>>
    /\ UNCHANGED <<ivars, bvars>>

\* The client method a command calls, and the workflow ID it passes.
Method(cmd) ==
    CASE cmd = "start" -> "ExecuteWorkflow"
      [] cmd = "signal" -> "SignalWorkflow"
      [] cmd = "query" -> "QueryWorkflow"
      [] cmd = "describe" -> "DescribeWorkflowExecution"

Call(method, id, body) == [method |-> method, id |-> id, body |-> body]

\* Lines 394, 905, 958, 992: the call, and what its failure returns.
\* describe goes on to fetch the history.
ClientCall ==
    /\ cpc = "call"
    /\ calls' = Append(calls,
                   Call(Method(command),
                        IF command = "start" THEN workflowID
                        ELSE config.WorkflowID,
                        payload))
    /\ \/ Fail("failed to " \o command \o " workflow")
       \/ /\ command = "query"
          /\ Fail("failed to parse query result")
       \/ IF command = "describe"
          THEN cpc' = "history" /\ returned' = returned
          ELSE Fail("ok")
    /\ UNCHANGED <<command, config, flagWorkflowID, interactive, inputFlag,
                   stdin, temporalClient, workflowID, generated, payload>>
    /\ UNCHANGED <<ivars, bvars>>

\* Lines 1017-1033: describe reads the history for the start event.
DescribeHistory ==
    /\ cpc = "history"
    /\ calls' = Append(calls,
                   Call("GetWorkflowHistory", config.WorkflowID, payload))
    /\ \/ Fail("failed to get workflow history")
       \/ Fail("ok")
    /\ UNCHANGED <<command, config, flagWorkflowID, interactive, inputFlag,
                   stdin, temporalClient, workflowID, generated, payload>>
    /\ UNCHANGED <<ivars, bvars>>

CmdNext ==
    \/ RequireWorkflowID
    \/ GetTemporalClient
    \/ ResolveWorkflowID
    \/ InteractiveInput
    \/ ReadInput
    \/ ClientCall
    \/ DescribeHistory

InitCmd == InferOff /\ BuildIdle /\ CmdInit

SpecCmd == InitCmd /\ [][CmdNext]_vars

(***************************************************************************)
(* Properties of inferWorkflowParams.                                      *)
(***************************************************************************)
\* The key under which the aggregation files an example.
KeyOf(v) == Sprintf(getStructureJSON(v))

Leaf(v) == v.t \in {"string", "number", "bool", "null"}

\* v and w differ at most in leaf contents and in array elements after the
\* first.
RECURSIVE SameShape(_, _)
SameShape(v, w) ==
    /\ v.t = w.t
    /\ CASE v.t = "object" ->
                /\ DOMAIN v.o = DOMAIN w.o
                /\ \A k \in DOMAIN v.o : SameShape(v.o[k], w.o[k])
         [] v.t = "array" ->
                \/ Len(v.a) = 0 /\ Len(w.a) = 0
                \/ Len(v.a) > 0 /\ Len(w.a) > 0 /\ SameShape(v.a[1], w.a[1])
         [] OTHER -> TRUE

\* v and w have the same keys and some leaf reached through object keys has
\* a different type in v than in w.
RECURSIVE LeafTypeDiffers(_, _)
LeafTypeDiffers(v, w) ==
    IF v.t = "object" /\ w.t = "object"
    THEN /\ DOMAIN v.o = DOMAIN w.o
         /\ \E k \in DOMAIN v.o : LeafTypeDiffers(v.o[k], w.o[k])
    ELSE Leaf(v) /\ Leaf(w) /\ v.t # w.t

Emitted == pc = "done" /\ output = "schema"

\* C1: the sample set holds exactly one entry per distinct signature key of
\* the examples examined so far, however often a shape was seen.
C1_OneEntryPerSignature ==
    /\ DOMAIN paramExamples = {KeyOf(v) : v \in examined}
    /\ DOMAIN paramStructures = DOMAIN paramExamples
    /\ Cardinality(DOMAIN paramExamples) <= found

C1_Witness ==
    /\ pc = "done"
    /\ found = 2
    /\ Cardinality(examined) = 1
    /\ Cardinality(DOMAIN paramExamples) = 1

\* C2: only the first `limit` executions are examined, in the order
\* supplied; no execution at a later position is fetched, so none can add
\* or change a sample-set entry.  Without --limit the limit is 3.
C2_OnlyFirstLimit ==
    /\ \A p \in fetched : p <= limit /\ p <= nExec
    /\ fetched \in {1..idx, 1..(idx + 1)}
    /\ (pc = "done" /\ output \in {"no structures found", "schema", "examples"})
          => fetched = 1..Min(limit, nExec)
    /\ DefaultLimit = 3

C2_Witness ==
    /\ pc = "done"
    /\ limit = DefaultLimit
    /\ nExec > limit
    /\ fetched = 1..limit
    /\ Cardinality(DOMAIN paramExamples) = limit

\* C5: with n >= 2 sample-set entries the emitted root carries exactly
\* $schema, title, description and oneOf, and oneOf has one member per
\* entry, each the schema of that entry's example generated without title.
C5_UnionRoot ==
    (Emitted /\ Cardinality(DOMAIN paramExamples) >= 2) =>
        /\ DOMAIN combinedSchema = {"$schema", "title", "description", "oneOf"}
        /\ Len(combinedSchema.oneOf) = Cardinality(DOMAIN paramExamples)
        /\ \E order \in Perms(DOMAIN paramExamples) :
            \A i \in 1..Len(order) :
                (combinedSchema.oneOf[i] @@ ("$schema" :> Draft07))
                    \in generateJSONSchema(paramExamples[order[i]], "")

C5_Witness ==
    /\ Emitted
    /\ Cardinality(DOMAIN paramExamples) = 3
    /\ Len(combinedSchema.oneOf) = 3

\* C6: with exactly one sample-set entry the emitted schema is the
\* single-document schema of the representative with the root title and
\* description attached, and it has no oneOf.
C6_SingleShape ==
    (Emitted /\ Cardinality(DOMAIN paramExamples) = 1) =>
        \A k \in DOMAIN paramExamples :
            /\ "oneOf" \notin DOMAIN combinedSchema
            /\ combinedSchema.type = getJSONType(paramExamples[k])
            /\ combinedSchema.title = workflowType \o " Parameters"
            /\ combinedSchema.description =
                    "Parameter schema for " \o workflowType \o " workflow"
            /\ Delete(Delete(combinedSchema, "title"), "description")
                    \in generateJSONSchema(paramExamples[k], "")

C6_Witness ==
    /\ Emitted
    /\ Cardinality(DOMAIN paramExamples) = 1
    /\ found >= 2
    /\ "required" \in DOMAIN combinedSchema

\* C7: examples that differ in the type of a leaf reached through object
\* keys are filed under different keys, so both have an entry and the union
\* has a member for each; examples that differ only in leaf contents or in
\* array elements after the first are filed under the same key.
IdA == JObj([id |-> JStr("a")])
Id5 == JObj([id |-> JNum(5)])

C7_LeafTypesSeparate ==
    /\ \A v, w \in examined :
        /\ LeafTypeDiffers(v, w) =>
                /\ KeyOf(v) # KeyOf(w)
                /\ {KeyOf(v), KeyOf(w)} \subseteq DOMAIN paramExamples
        /\ SameShape(v, w) => KeyOf(v) = KeyOf(w)
    /\ (Emitted /\ examined = {IdA, Id5}) =>
        /\ Len(combinedSchema.oneOf) = 2
        /\ {combinedSchema.oneOf[i].properties.id.type : i \in 1..2}
                = {"string", "number"}

C7_Witness ==
    /\ Emitted
    /\ examined = {IdA, Id5}
    /\ Cardinality(DOMAIN paramExamples) = 2

(***************************************************************************)
(* Properties of generateJSONSchema, checked on the schema that            *)
(* inferWorkflowSchemaForType generates from the decoded payload.          *)
(***************************************************************************)
HasSchema == bpc \notin {"start", "infer"} /\ schema # EmptyMap

\* The names listed in a schema's `required`.
RequiredOf(s) == IF "required" \in DOMAIN s THEN Range(s.required) ELSE {}

\* At every object of v: `required` lists exactly the keys whose value is not
\* null, each once.
RECURSIVE RequiredMatches(_, _)
RequiredMatches(s, v) ==
    CASE v.t = "object" ->
            /\ RequiredOf(s) = {k \in DOMAIN v.o : v.o[k].t # "null"}
            /\ "required" \in DOMAIN s =>
                    Len(s.required) = Cardinality(RequiredOf(s))
            /\ \A k \in DOMAIN v.o : RequiredMatches(s.properties[k], v.o[k])
      [] v.t = "array" ->
            Len(v.a) > 0 => RequiredMatches(s.items, v.a[1])
      [] OTHER -> TRUE

\* C3: for every object value, `required` contains every key whose value is
\* not null, no key whose value is null, and nothing else.
C3_RequiredIsNonNullKeys ==
    HasSchema => RequiredMatches(schema, jsonObj)

C3_Witness ==
    /\ HasSchema
    /\ jsonObj = JObj([id |-> JNull, n |-> JNum(1)])
    /\ schema.required = <<"n">>

\* The structural type of a decoded value.
StructuralType(v) == IF v.t = "bool" THEN "boolean" ELSE v.t

RECURSIVE TypesMatch(_, _)
TypesMatch(s, v) ==
    /\ s.type = StructuralType(v)
    /\ s.type # "integer"
    /\ CASE v.t = "object" ->
                /\ DOMAIN s.properties = DOMAIN v.o
                /\ \A k \in DOMAIN v.o : TypesMatch(s.properties[k], v.o[k])
         [] v.t = "array" -> Len(v.a) > 0 => TypesMatch(s.items, v.a[1])
         [] OTHER -> TRUE

\* C4: the type of a generated schema is the structural type of the value,
\* at the root and at every nested value; it is never "integer".
C4_TypeIsStructuralType ==
    HasSchema => TypesMatch(schema, jsonObj)

C4_Witness ==
    /\ HasSchema
    /\ jsonObj = JArr(<<JNum(5), JStr("x")>>)
    /\ schema.type = "array"
    /\ schema.items.type = "number"

(***************************************************************************)
(* Properties of the schema-driven builder.                                *)
(***************************************************************************)
Built == bpc \in {"confirm", "executed", "canceled"}

\* The field a frame of buildInputInteractivelyFromSchema is working on.
InProgress(f) == IF f.at = "loop" THEN {} ELSE {f.field}

\* C8: the object built from a schema with properties has only property
\* names as keys, and every required name the loop has finished is a key; so
\* the returned object has every required name.
C8_KeysWithinSchema ==
    /\ \A i \in 1..Len(stack) :
        stack[i].fn = "fromSchema" =>
            /\ DOMAIN stack[i].result \subseteq DOMAIN stack[i].schema.properties
            /\ (RequiredOf(stack[i].schema) \ (stack[i].todo \cup InProgress(stack[i])))
                    \subseteq DOMAIN stack[i].result
    /\ (Built /\ "properties" \in DOMAIN schema) =>
            /\ inputData.t = "object"
            /\ DOMAIN inputData.o \subseteq DOMAIN schema.properties
            /\ RequiredOf(schema) \subseteq DOMAIN inputData.o

C8_Witness ==
    /\ bpc = "confirm"
    /\ jsonObj = JObj([id |-> JNull, n |-> JNum(1)])
    /\ inputData = JObj([n |-> JNum(42)])

\* v has the JSON type that schema s declares, recursively.
RECURSIVE Conforms(_, _)
Conforms(s, v) ==
    CASE TypeOf(s) = "object" ->
            /\ v.t = "object"
            /\ \A k \in DOMAIN v.o :
                /\ k \in DOMAIN s.properties
                /\ Conforms(s.properties[k], v.o[k])
      [] TypeOf(s) = "array" ->
            /\ v.t = "array"
            /\ \A i \in 1..Len(v.a) : Conforms(ItemsOf(s), v.a[i])
      [] TypeOf(s) = "string" -> v.t = "string"
      [] TypeOf(s) \in {"number", "integer"} -> v.t = "number"
      [] TypeOf(s) = "boolean" -> v.t = "bool"
      [] TypeOf(s) = "null" -> v.t = "null"
      [] OTHER -> FALSE

\* C9: the document built from the schema of an object example has, at
\* every key and array element, the JSON type the schema declares.
C9_ValuesHaveDeclaredType ==
    (Built /\ HasSchema /\ jsonObj.t = "object") => Conforms(schema, inputData)

\* C10: at the prompt of a required number field, a line that parses is
\* stored as the field's value and ends the prompt; any other line prints
\* one error and leaves the prompt waiting.  With "No" then "42"
\* for the required field n: one error, and {"n": 42} is returned.
AtRequiredNumberPrompt ==
    /\ Running
    /\ Top.fn = "fromSchema" /\ Top.at = "prompt"
    /\ TypeOf(Top.schema.properties[Top.field]) \in {"number", "integer"}
    /\ IsRequired(Top.schema, Top.field)

LineRead == IF consumed' # consumed THEN consumed'[Len(consumed')] ELSE ""

RequiredNumberStep ==
    AtRequiredNumberPrompt =>
        IF ParseFloat(TrimSpace(LineRead)).ok
        THEN /\ stack' = ReplaceTop([Top EXCEPT
                    !.result = (Top.field :> JNum(ParseFloat(TrimSpace(LineRead)).num)) @@ @,
                    !.at = "loop"])
             /\ errors' = errors
        ELSE /\ stack' = stack
             /\ errors' = errors + 1 \/ (errors = MaxErrors /\ errors' = errors)

RequiredNumberScenario ==
    (/\ jsonObj = JObj([n |-> JNum(1)])
     /\ bpc = "confirm"
     /\ consumed = <<"No", "42">>)
        => (errors = 1 /\ inputData = JObj([n |-> JNum(42)]))

C10_RequiredNumberRetries ==
    [][RequiredNumberStep]_vars /\ []RequiredNumberScenario

C10_Witness ==
    /\ jsonObj = JObj([n |-> JNum(1)])
    /\ bpc = "confirm"
    /\ consumed = <<"No", "42">>
    /\ errors = 1
    /\ inputData = JObj([n |-> JNum(42)])

(***************************************************************************)
(* Properties of buildArrayInteractively.                                  *)
(***************************************************************************)
\* The array builder is about to read the line of a leaf item.
AtItemPrompt(itemTypes) ==
    /\ Running
    /\ Top.fn = "array" /\ Top.at = "loop"
    /\ TypeOf(Top.itemSchema) \in itemTypes

\* The line read is not empty and is not a value of the item type.
InvalidItemLine ==
    LET input == TrimSpace(LineRead)
    IN  /\ input # ""
        /\ IF TypeOf(Top.itemSchema) = "boolean"
           THEN ToLower(input) \notin {"true", "yes", "y", "false", "no", "n"}
           ELSE ~ParseFloat(input).ok

OneMoreError == errors' = errors + 1 \/ (errors = MaxErrors /\ errors' = errors)

\* C11: an invalid line for a number or boolean item prints one error and
\* appends nothing; the loop goes on to the next item.
C11_InvalidItemSkipped ==
    [][(AtItemPrompt({"number", "integer", "boolean"}) /\ InvalidItemLine) =>
            /\ stack' = ReplaceTop([Top EXCEPT !.i = @ + 1])
            /\ OneMoreError]_vars

\* The schema's only field is `tags`, an array whose items are strings.
TagsOfStrings == jsonObj = JObj([tags |-> JArr(<<JStr("y")>>)])

\* One step of the array builder at a string item: an empty line returns
\* the array as it is, any other line is appended.
StringItemStep ==
    AtItemPrompt({"string"}) =>
        IF TrimSpace(LineRead) = ""
        THEN /\ stack' = Pop
             /\ ret' = [set |-> TRUE, v |-> JArr(Top.result)]
             /\ errors' = errors
        ELSE /\ stack' = ReplaceTop([Top EXCEPT
                    !.result = Append(@, JStr(TrimSpace(LineRead))),
                    !.i = @ + 1])
             /\ errors' = errors

\* The built array is the lines read before the first empty one, in order,
\* and that empty line is the last line read.
StringItemsResult ==
    (TagsOfStrings /\ bpc = "confirm") =>
        LET a == inputData.o.tags.a
            k == Len(a)
        IN  /\ k <= Len(consumed)
            /\ \A i \in 1..k :
                /\ TrimSpace(consumed[i]) # ""
                /\ a[i] = JStr(TrimSpace(consumed[i]))
            /\ \/ Len(consumed) = k + 1 /\ TrimSpace(consumed[k + 1]) = ""
               \/ Len(consumed) = k /\ AtEOF

StringItemsScenario ==
    (TagsOfStrings /\ bpc = "confirm" /\ consumed = <<"a", "b", "">>) =>
        inputData = JObj([tags |-> JArr(<<JStr("a"), JStr("b")>>)])

\* C12: with string items the array is exactly the non-empty inputs before
\* the first empty one, in input order, and nothing is read after that empty
\* line; "a", "b", "" give ["a","b"].
C12_StringItemsUntilEmpty ==
    [][StringItemStep]_vars /\ []StringItemsResult /\ []StringItemsScenario

C12_Witness ==
    /\ TagsOfStrings
    /\ bpc = "confirm"
    /\ consumed = <<"a", "b", "">>
    /\ inputData = JObj([tags |-> JArr(<<JStr("a"), JStr("b")>>)])

\* The value a nested builder returned is the empty object (object items) or
\* the empty array (array items).
EmptyItem(itemType, v) ==
    IF itemType = "object" THEN v = JObj(EmptyMap) ELSE v = JArr(<<>>)

NestedItemStep ==
    (/\ bpc = "build" /\ stack # <<>>
     /\ Top.fn = "array" /\ Top.at = "call"
     /\ ret.set) =>
        IF EmptyItem(TypeOf(Top.itemSchema), ret.v)
        THEN /\ stack' = Pop
             /\ ret' = [set |-> TRUE, v |-> JArr(Top.result)]
        ELSE stack' = ReplaceTop([Top EXCEPT !.result = Append(@, ret.v),
                                             !.i = @ + 1, !.at = "loop"])

NoEmptyItems ==
    \A i \in 1..Len(stack) :
        (stack[i].fn = "array" /\ TypeOf(stack[i].itemSchema) \in {"object", "array"}) =>
            \A j \in 1..Len(stack[i].result) :
                ~EmptyItem(TypeOf(stack[i].itemSchema), stack[i].result[j])

\* C13: with object items an empty object ends the array and is not
\* appended, with array items an empty array does; each non-empty item built
\* before that is appended, in order.
C13_EmptyNestedItemEnds ==
    [][NestedItemStep]_vars /\ []NoEmptyItems

C13_Witness ==
    /\ jsonObj = JObj([tags |-> JArr(<<JObj([id |-> JNull])>>)])
    /\ bpc = "confirm"
    /\ consumed = <<"a", "">>
    /\ inputData = JObj([tags |-> JArr(<<JObj([id |-> JStr("a")])>>)])

(***************************************************************************)
(* Properties of the fallback to the free-form builder, of the             *)
(* confirmation, and of the handling of empty answers.                     *)
(***************************************************************************)
FreeFormFns == {"generic", "object", "garray"}

NoProperties(s) == s = EmptyMap \/ "properties" \notin DOMAIN s

\* C14: without a schema, and with a schema that has no properties, the
\* builder that runs is the free-form one; without a schema the menu choice
\* "6" returns the empty object.
C14_FallsBackToFreeForm ==
    /\ EnterFromSchema(EmptyMap) = GenericFrame
    /\ \A i \in 1..Len(stack) :
        stack[i].fn = "fromSchema" => ~NoProperties(stack[i].schema)
    /\ (bpc = "build" /\ stack # <<>> /\ NoProperties(schema)) =>
            stack[1].fn \in FreeFormFns
    /\ (Built /\ NoProperties(schema) /\ consumed[1] = "6") =>
            inputData = JObj(EmptyMap)

C14_Witness ==
    /\ bpc = "confirm"
    /\ schema = EmptyMap
    /\ consumed = <<"6">>
    /\ inputData = JObj(EmptyMap)

\* C15: the workflow is executed only from the confirmation prompt and only
\* on the answer y or yes (trimmed, any case); every other answer cancels;
\* the confirmation is asked once the builders have returned the document.
ConfirmStep ==
    /\ bpc' = "executed" =>
            bpc = "executed" \/
            (bpc = "confirm" /\ ToLower(TrimSpace(LineRead)) \in {"y", "yes"})
    /\ bpc' = "canceled" =>
            bpc = "canceled" \/
            (bpc = "confirm" /\ ToLower(TrimSpace(LineRead)) \notin {"y", "yes"})
    /\ bpc = "confirm" => (bpc' \in {"confirm", "executed", "canceled"}
                           /\ inputData' = inputData)

DocumentBuiltFirst ==
    Built => (stack = <<>> /\ ~ret.set)

C15_ExecuteOnlyAfterYes ==
    [][ConfirmStep]_vars /\ []DocumentBuiltFirst

C15_Witness ==
    /\ bpc = "executed"
    /\ consumed = <<"6", "Yes">>
    /\ inputData = JObj(EmptyMap)

\* FieldAnswer and StoreField on an empty answer, for every leaf type.
EmptyAnswerRule ==
    \A line \in {"", " "} :
        /\ \A fieldType \in {"string", "number", "integer", "boolean", "null"} :
            LET a == FieldAnswer(fieldType, FALSE, line)
            IN  ~a.again /\ StoreField(EmptyMap, "f", a.value) = EmptyMap
        /\ \A fieldType \in {"number", "integer", "boolean"} :
            FieldAnswer(fieldType, TRUE, line).again

\* The field under the prompt is a leaf that is not required.
AtOptionalPrompt ==
    /\ Running
    /\ Top.fn = "fromSchema" /\ Top.at = "prompt"
    /\ ~IsRequired(Top.schema, Top.field)

AtRequiredPrompt ==
    /\ Running
    /\ Top.fn = "fromSchema" /\ Top.at = "prompt"
    /\ IsRequired(Top.schema, Top.field)

EmptyAnswerStep ==
    /\ (AtOptionalPrompt /\ TrimSpace(LineRead) = "" /\ stack' # stack) =>
            stack' = ReplaceTop([Top EXCEPT !.at = "loop"])
    /\ (AtRequiredPrompt /\ TrimSpace(LineRead) = "") => stack' = stack

NoEmptyValues ==
    /\ \A i \in 1..Len(stack) :
        stack[i].fn = "fromSchema" =>
            \A k \in DOMAIN stack[i].result :
                stack[i].result[k] # JNull /\ stack[i].result[k] # JStr("")
    /\ (Built /\ ~NoProperties(schema)) =>
            \A k \in DOMAIN inputData.o :
                inputData.o[k] # JNull /\ inputData.o[k] # JStr("")

\* C16: the object built from a schema maps no key to null or to the empty
\* string: a field that is not required and is answered with an empty line
\* is left out, and an empty line is not accepted for a required field.
C16_NoEmptyValuesStored ==
    [][EmptyAnswerStep]_vars /\ [](NoEmptyValues /\ EmptyAnswerRule)

C16_Witness ==
    /\ jsonObj = JObj([id |-> JNull, n |-> JNum(1)])
    /\ bpc = "confirm"
    /\ "id" \notin DOMAIN inputData.o
    /\ inputData.o.n = JNum(42)
    /\ \E i \in 1..Len(consumed) : consumed[i] = " "

\* The field under the prompt is read as a string.
AtStringPrompt ==
    /\ Running
    /\ Top.fn = "fromSchema" /\ Top.at = "prompt"
    /\ TypeOf(Top.schema.properties[Top.field]) \in {"string", "null"}

StringFieldStep ==
    AtStringPrompt =>
        IF IsRequired(Top.schema, Top.field)
        THEN IF TrimSpace(LineRead) = ""
             THEN stack' = stack /\ OneMoreError
             ELSE /\ stack' = ReplaceTop([Top EXCEPT
                        !.result = (Top.field :> JStr(TrimSpace(LineRead))) @@ @,
                        !.at = "loop"])
                  /\ errors' = errors
        ELSE (stack' # stack \/ consumed' # consumed) =>
                /\ stack' = ReplaceTop([Top EXCEPT
                        !.result = IF TrimSpace(LineRead) = "" THEN @
                                   ELSE (Top.field :> JStr(TrimSpace(LineRead))) @@ @,
                        !.at = "loop"])
                /\ errors' = errors

StringPromptRule ==
    \A line \in FieldLines :
        /\ ~FieldAnswer("string", FALSE, line).again
        /\ FieldAnswer("string", TRUE, line).again <=> TrimSpace(line) = ""

RequiredStringScenario ==
    (/\ jsonObj = JObj([id |-> JStr("a")])
     /\ bpc = "confirm"
     /\ consumed = <<"", " ", "b">>)
        => (errors = 2 /\ inputData = JObj([id |-> JStr("b")]))

\* C17: a required string field is asked again while the trimmed answer is
\* empty and the first non-empty answer is stored; a string field that is
\* not required is asked once.
C17_RequiredStringRetries ==
    [][StringFieldStep]_vars /\ [](StringPromptRule /\ RequiredStringScenario)

C17_Witness ==
    /\ jsonObj = JObj([id |-> JStr("a")])
    /\ bpc = "confirm"
    /\ consumed = <<"", " ", "b">>
    /\ errors = 2
    /\ inputData = JObj([id |-> JStr("b")])

(***************************************************************************)
(* Properties of inferWorkflowParams when examples are missing or unusable.*)
(***************************************************************************)
Finished == pc = "done"

\* C18: when ListWorkflow returns no execution, the command ends with the
\* "no structures found" outcome and not with an error.
C18_EmptyListIsNoShape ==
    (Finished /\ nExec = 0 /\ output # "error: failed to list workflows") =>
        output = "no structures found"

\* C19: executions were listed and no payload decoded: the command prints
\* the "no parameter structures found" report, emits no schema and returns
\* without error.
C19_NoUsablePayload ==
    (Finished /\ nExec > 0 /\ found = 0) =>
        /\ output = "no structures found"
        /\ combinedSchema = EmptyMap
        /\ paramStructures = EmptyMap

C19_Witness ==
    /\ Finished
    /\ nExec > 0
    /\ found = 0
    /\ skipped >= 2
    /\ output = "no structures found"

\* A step that skips a payload or a history with a warning keeps what was
\* collected and stays in the loops.
SkipStep ==
    skipped' > skipped =>
        /\ paramStructures' = paramStructures
        /\ paramExamples' = paramExamples
        /\ pc' \in {"payloads", "examine"}
        /\ \/ pc = "payloads" /\ pending' = pending - 1
           \/ pc = "examine" /\ idx' = idx + 1

\* Having got past the listing, the command ends only after the history of
\* each of the first numToExamine executions was requested and every payload
\* of the last start event was examined.
AllWithinLimitExamined ==
    (Finished /\ nExec > 0) =>
        /\ fetched = 1..numToExamine
        /\ idx = numToExamine
        /\ pending = 0

\* C20: a payload that is not JSON, and an execution whose history cannot
\* be fetched, leave the collected structures as they are and do not end the
\* loops: the remaining payloads and executions within the limit are examined.
C20_BadPayloadSkipped ==
    [][SkipStep]_vars /\ []AllWithinLimitExamined

C20_Witness ==
    /\ Finished
    /\ skipped >= 2
    /\ found >= 1
    /\ Cardinality(DOMAIN paramExamples) >= 1
    /\ numToExamine >= 2
    /\ fetched = 1..numToExamine

(***************************************************************************)
(* Properties of the --limit flag and of the shape of generated schemas.   *)
(***************************************************************************)
\* C21: whatever the limit flag and the list of executions, the command
\* ends with a result or a returned error and never with a runtime panic.
C21_NeverPanics == pc # "panic"

\* The sub-schemas of a schema node: its properties and its items.
SubSchemas(s) ==
    (IF "properties" \in DOMAIN s
     THEN {s.properties[k] : k \in DOMAIN s.properties} ELSE {})
    \cup (IF "items" \in DOMAIN s THEN {s.items} ELSE {})

RECURSIVE KeywordsFitType(_)
KeywordsFitType(s) ==
    /\ ("properties" \in DOMAIN s \/ "required" \in DOMAIN s) => s.type = "object"
    /\ "items" \in DOMAIN s => s.type = "array"
    /\ \A sub \in SubSchemas(s) : KeywordsFitType(sub)

\* C22: at every depth of a generated schema, properties and required occur
\* only on object nodes and items only on array nodes.
C22_KeywordsFitType == HasSchema => KeywordsFitType(schema)

C22_Witness ==
    /\ HasSchema
    /\ jsonObj = JObj([tags |-> JArr(<<JObj([n |-> JNum(1)])>>)])
    /\ schema.properties.tags.items.required = <<"n">>

\* "$schema" occurs somewhere in s.
RECURSIVE MentionsDraft(_)
MentionsDraft(s) ==
    "$schema" \in DOMAIN s \/ \E sub \in SubSchemas(s) : MentionsDraft(sub)

RECURSIVE LeavesOnlyType(_)
LeavesOnlyType(s) ==
    IF SubSchemas(s) = {} /\ s.type \notin {"object", "array"}
    THEN DOMAIN s = {"type"}
    ELSE \A sub \in SubSchemas(s) : LeavesOnlyType(sub)

\* C23: in a generated schema "$schema" is on the root only: no schema under
\* properties or items has it, and a leaf below the root has only `type`.
C23_DraftOnRootOnly ==
    HasSchema =>
        /\ "$schema" \in DOMAIN schema
        /\ \A sub \in SubSchemas(schema) :
            ~MentionsDraft(sub) /\ LeavesOnlyType(sub)

\* C24: in a union schema "$schema" is on the root and nowhere inside a
\* member of oneOf.
C24_MembersStripped ==
    (Emitted /\ "oneOf" \in DOMAIN combinedSchema) =>
        /\ "$schema" \in DOMAIN combinedSchema
        /\ \A i \in 1..Len(combinedSchema.oneOf) :
            ~MentionsDraft(combinedSchema.oneOf[i])

RECURSIVE ItemsFromFirst(_, _)
ItemsFromFirst(s, v) ==
    CASE v.t = "array" ->
            IF Len(v.a) = 0
            THEN s.items = [type |-> "string"]
            ELSE /\ s.items \in generateJSONSchema(v.a[1], "")
                 /\ s \in generateJSONSchema(JArr(<<v.a[1]>>), "")
                 /\ ItemsFromFirst(s.items, v.a[1])
      [] v.t = "object" ->
            \A k \in DOMAIN v.o : ItemsFromFirst(s.properties[k], v.o[k])
      [] OTHER -> TRUE

\* C25: the items of an array's schema are the schema of its first element,
\* so the schema is that of the array cut down to its first element; the
\* items of an empty array's schema are {type: "string"}.
C25_ItemsFromFirstElement == HasSchema => ItemsFromFirst(schema, jsonObj)

C25_Witness ==
    /\ HasSchema
    /\ jsonObj = JArr(<<JNum(5), JStr("x")>>)
    /\ schema.items = ("$schema" :> Draft07) @@ [type |-> "number"]

(***************************************************************************)
(* Properties of the free-form builders.                                   *)
(***************************************************************************)
AtGeneric(at) == Running /\ Top.fn = "generic" /\ Top.at = at

Returns(v) == stack' = Pop /\ ret' = [set |-> TRUE, v |-> v]

Retries == stack' = stack /\ ret' = ret /\ OneMoreError

MenuStep ==
    AtGeneric("menu") =>
        LET choice == TrimSpace(LineRead)
        IN  CASE choice = "6" -> Returns(JObj(EmptyMap)) /\ errors' = errors
              [] choice = "7" -> Returns(JArr(<<>>)) /\ errors' = errors
              [] choice = "8" -> Returns(JNull) /\ errors' = errors
              [] choice \in {"1", "2", "3", "4", "5"} ->
                    /\ Len(stack') = Len(stack)
                    /\ ~ret'.set
                    /\ errors' = errors
              [] OTHER -> Retries

ValueStep ==
    /\ AtGeneric("string") => Returns(JStr(LineRead))
    /\ AtGeneric("number") =>
            IF ParseFloat(TrimSpace(LineRead)).ok
            THEN Returns(JNum(ParseFloat(TrimSpace(LineRead)).num))
            ELSE Retries
    /\ AtGeneric("boolean") =>
            IF ToLower(TrimSpace(LineRead)) \in {"true", "yes", "y"}
            THEN Returns(JBool(TRUE))
            ELSE IF ToLower(TrimSpace(LineRead)) \in {"false", "no", "n"}
            THEN Returns(JBool(FALSE))
            ELSE Retries

\* C26: the free-form builder leaves its menu only on a choice in 1..8, any
\* other line prints an error and the menu is asked again; 6, 7 and 8 return
\* {}, [] and null, 3 returns the next line as it is, 4 and 5 ask until the
\* line is a number, or one of true/yes/y/false/no/n.
C26_FreeFormMenu == [][MenuStep /\ ValueStep]_vars

C26_Witness ==
    /\ schema = EmptyMap
    /\ bpc = "confirm"
    /\ consumed = <<"a", "4", "a", "5">>
    /\ errors = 2
    /\ inputData = JNum(5)

AtObject(at) == Running /\ Top.fn = "object" /\ Top.at = at

ObjectStep ==
    /\ AtObject("key") =>
            IF TrimSpace(LineRead) = ""
            THEN Returns(JObj(Top.result))
            ELSE stack' = Append(ReplaceTop([Top EXCEPT !.key = TrimSpace(LineRead),
                                                        !.at = "call"]),
                                 GenericFrame)
    /\ (AtObject("call") /\ ret.set) =>
            stack' = ReplaceTop([Top EXCEPT
                        !.result = [k \in DOMAIN Top.result \cup {Top.key} |->
                                        IF k = Top.key THEN ret.v ELSE Top.result[k]],
                        !.at = "key"])

SameKeyTwice ==
    (/\ schema = EmptyMap
     /\ bpc = "confirm"
     /\ consumed = <<"1", "a", "6", "a", "8">>)
        => inputData = JObj([a |-> JNull])

\* C27: the free-form object builder returns the fields entered so far on
\* the first empty field name; for every other name it builds one value with
\* the free-form builder and stores it under the name, replacing the value
\* an earlier use of the name stored.
C27_ObjectLastWriteWins == [][ObjectStep]_vars /\ []SameKeyTwice

C27_Witness ==
    /\ schema = EmptyMap
    /\ bpc = "confirm"
    /\ consumed = <<"1", "a", "6", "a", "8">>
    /\ inputData = JObj([a |-> JNull])

AtGArray(ats) == Running /\ Top.fn = "garray" /\ Top.at \in ats

Appends(v) ==
    stack' = ReplaceTop([Top EXCEPT !.result = Append(@, v), !.i = @ + 1,
                                    !.at = "menu"])

GArrayStep ==
    /\ AtGArray({"menu"}) =>
            LET choice == TrimSpace(LineRead)
            IN  CASE choice = "7" -> Returns(JArr(Top.result))
                  [] choice = "6" -> Appends(JNull)
                  [] choice \in {"1", "2", "3", "4", "5"} ->
                        /\ Len(stack') >= Len(stack)
                        /\ stack'[Len(stack)].result = Top.result
                        /\ stack'[Len(stack)].i = Top.i
                        /\ errors' = errors
                  [] OTHER -> Retries
    /\ (AtGArray({"string", "number", "boolean"}) /\ stack' # stack) =>
            \E v \in {JStr(LineRead), JBool(TRUE), JBool(FALSE),
                      JNum(ParseFloat(TrimSpace(LineRead)).num)} : Appends(v)
    /\ (AtGArray({"call"}) /\ ret.set) => Appends(ret.v)

ItemNumberIsNext ==
    \A i \in 1..Len(stack) :
        stack[i].fn = "garray" => stack[i].i = Len(stack[i].result) + 1

\* C28: in the free-form array builder 7 ends the array, a choice in 1..6
\* appends one value, any other line appends nothing and keeps the item
\* number; the number announced is the length of the array plus one.
C28_ItemNumberFollowsLength == [][GArrayStep]_vars /\ []ItemNumberIsNext

C28_Witness ==
    /\ schema = EmptyMap
    /\ bpc = "confirm"
    /\ consumed = <<"2", "a", "6", "7">>
    /\ errors = 1
    /\ inputData = JArr(<<JNull>>)

\* C29: while the document is built one reader over standard input exists:
\* nested builder calls and prompts create no second one.
C29_SingleReader == bpc = "build" => readers <= 1

\* C30: when a schema was inferred the schema-driven builder asks for its
\* fields; the type menu of the free-form builder runs only when no schema
\* was inferred.
C30_MenuOnlyWithoutSchema ==
    (bpc = "build" /\ stack # <<>>) =>
        (stack[1].fn \in FreeFormFns <=> schema = EmptyMap)

(***************************************************************************)
(* Properties of start, signal, query and describe.                        *)
(***************************************************************************)
\* The ExecuteWorkflow calls made so far.
Executions == {calls[i] : i \in {j \in 1..Len(calls) :
                                    calls[j].method = "ExecuteWorkflow"}}

\* C31: the workflow ID start passes to ExecuteWorkflow is the command's
\* own --workflow-id when that is not empty, otherwise the global workflow
\* ID when that is not empty; an ID is generated, and announced, exactly
\* when both are empty.
C31_WorkflowIDPrecedence ==
    \A call \in Executions :
        /\ flagWorkflowID # "" => call.id = flagWorkflowID
        /\ (flagWorkflowID = "" /\ config.WorkflowID # "") =>
                call.id = config.WorkflowID
        /\ generated <=> (flagWorkflowID = "" /\ config.WorkflowID = "")
        /\ generated => call.id \in {AutoID(unix) : unix \in 0..MaxUnix}

\* Both flags are given and the workflow was started under the command's.
C31_Witness ==
    /\ command = "start"
    /\ flagWorkflowID = "order-2" /\ config.WorkflowID = "order-1"
    /\ returned = "ok"
    /\ calls = <<Call("ExecuteWorkflow", "order-2", "{}")>>

\* C32: with an empty workflow ID, signal, query and describe return their
\* error as the first thing they do: no Temporal client has been created
\* and no call has been made.
C32_EmptyIDRejectedFirst ==
    (command \in {"signal", "query", "describe"} /\ config.WorkflowID = "") =>
        /\ cpc \in {"check", "done"}
        /\ ~temporalClient
        /\ calls = <<>>
        /\ cpc = "done" => returned = RequiredError(command)

C32_Witness ==
    /\ command = "query" /\ config.WorkflowID = ""
    /\ cpc = "done"
    /\ returned = "workflow ID is required for querying"
    /\ ~temporalClient /\ calls = <<>>

(***************************************************************************)
(* The representative example of a structure.                              *)
(***************************************************************************)
IdB == JObj([id |-> JStr("b")])

\* An entry of the sample set is never replaced or removed.
RepresentativesStay ==
    \A k \in DOMAIN paramExamples :
        k \in DOMAIN paramExamples' /\ paramExamples'[k] = paramExamples[k]

\* A new entry holds the example examined in this step, as decoded: it has
\* the signature of the key, and no example examined before had it.
NewRepresentativeIsFirst ==
    \A k \in DOMAIN paramExamples' \ DOMAIN paramExamples :
        /\ paramExamples'[k] \in examined' \ examined
        /\ KeyOf(paramExamples'[k]) = k
        /\ \A v \in examined : KeyOf(v) # k
        /\ paramStructures'[k] = getStructureJSON(paramExamples'[k])

\* C33: the representative stored under a signature key is the first
\* examined example that has the signature, stored as the example itself
\* and not as its skeleton; a later example of the same signature never
\* replaces it.
C33_FirstExampleKept ==
    /\ [][RepresentativesStay /\ NewRepresentativeIsFirst]_vars
    /\ [](\A k \in DOMAIN paramExamples :
            paramExamples[k] \in examined /\ KeyOf(paramExamples[k]) = k)

\* {"id":"a"} and {"id":"b"} were both examined; the first one is kept,
\* and it differs from the skeleton {"id":"string"}.
C33_Witness ==
    /\ pc = "done"
    /\ {IdA, IdB} \subseteq examined
    /\ found = 2
    /\ paramExamples[KeyOf(IdA)] = IdA
    /\ paramStructures[KeyOf(IdA)] # IdA

(***************************************************************************)
(* Boolean fields and fields of other types.                               *)
(***************************************************************************)
TrueWords == {"true", "yes", "y"}
FalseWords == {"false", "no", "n"}

AtBooleanPrompt ==
    /\ Running
    /\ Top.fn = "fromSchema" /\ Top.at = "prompt"
    /\ TypeOf(Top.schema.properties[Top.field]) = "boolean"

\* The prompt ends with value stored under the field.
Stores(value) ==
    /\ stack' = ReplaceTop([Top EXCEPT !.result = (Top.field :> value) @@ @,
                                       !.at = "loop"])
    /\ errors' = errors

\* The prompt ends and nothing is stored.
StoresNothing ==
    /\ stack' = ReplaceTop([Top EXCEPT !.at = "loop"])
    /\ errors' = errors

BooleanFieldStep ==
    AtBooleanPrompt =>
        LET word == ToLower(TrimSpace(LineRead))
        IN  IF word \in TrueWords THEN Stores(JBool(TRUE))
            ELSE IF word \in FalseWords THEN Stores(JBool(FALSE))
            ELSE IF word = "" /\ ~IsRequired(Top.schema, Top.field)
            THEN (stack' # stack \/ consumed' # consumed) => StoresNothing
            ELSE stack' = stack /\ OneMoreError

\* The same rule on the answer itself, for fields required and not.
BooleanPromptRule ==
    \A line \in FieldLines \cup TrueWords \cup FalseWords, required \in BOOLEAN :
        LET word == ToLower(TrimSpace(line))
            a == FieldAnswer("boolean", required, line)
        IN  IF word \in TrueWords THEN a = Got(JBool(TRUE))
            ELSE IF word \in FalseWords THEN a = Got(JBool(FALSE))
            ELSE IF word = "" /\ ~required
            THEN ~a.again /\ ~a.err
                 /\ StoreField(EmptyMap, "f", a.value) = EmptyMap
            ELSE a.again /\ a.err

BooleanScenario ==
    (/\ jsonObj = JObj([ok |-> JBool(TRUE)])
     /\ bpc = "confirm"
     /\ consumed = <<"", "a", "No">>)
        => (errors = 2 /\ inputData = JObj([ok |-> JBool(FALSE)]))

\* C34: a boolean field takes true, yes, y as true and false, no, n as
\* false, whatever the case of the letters; an empty line is accepted, and
\* nothing stored, only when the field is not required; every other line
\* prints an error and the prompt is repeated.
C34_BooleanField ==
    [][BooleanFieldStep]_vars /\ [](BooleanPromptRule /\ BooleanScenario)

C34_Witness ==
    /\ jsonObj = JObj([ok |-> JBool(TRUE)])
    /\ bpc = "confirm"
    /\ consumed = <<"", "a", "No">>
    /\ errors = 2
    /\ inputData = JObj([ok |-> JBool(FALSE)])

\* Types the switch of lines 504-559 names, and some it does not; "" is a
\* schema without "type".
NamedTypes == {"object", "array", "string", "number", "integer", "boolean"}
OtherTypes == {"", "null", "date", "int64"}

AtOtherPrompt ==
    /\ Running
    /\ Top.fn = "fromSchema" /\ Top.at = "prompt"
    /\ TypeOf(Top.schema.properties[Top.field]) \notin NamedTypes

\* What a string field does with the line read.
OtherFieldStep ==
    AtOtherPrompt =>
        IF TrimSpace(LineRead) # "" THEN Stores(JStr(TrimSpace(LineRead)))
        ELSE IF IsRequired(Top.schema, Top.field)
        THEN stack' = stack /\ OneMoreError
        ELSE (stack' # stack \/ consumed' # consumed) => StoresNothing

OtherTypeRule ==
    \A fieldType \in OtherTypes, required \in BOOLEAN, line \in FieldLines :
        LET a == FieldAnswer(fieldType, required, line)
        IN  /\ a = FieldAnswer("string", required, line)
            /\ TrimSpace(line) # "" =>
                    /\ a = Got(JStr(TrimSpace(line)))
                    /\ StoreField(EmptyMap, "f", a.value) =
                            [f |-> JStr(TrimSpace(line))]

OtherTypeScenario ==
    (/\ jsonObj = JObj([id |-> JNull])
     /\ bpc = "confirm"
     /\ consumed = <<"42">>)
        => inputData = JObj([id |-> JStr("42")])

\* C35: a property whose schema has no type, or a type other than object,
\* array, string, number, integer and boolean ("null" among them), is
\* prompted for as a string field is, and an answer that is not empty is
\* stored as a string.
C35_OtherTypesAsString ==
    [][OtherFieldStep]_vars /\ [](OtherTypeRule /\ OtherTypeScenario)

C35_Witness ==
    /\ jsonObj = JObj([id |-> JNull])
    /\ schema.properties.id.type = "null"
    /\ bpc = "confirm"
    /\ consumed = <<"42">>
    /\ inputData = JObj([id |-> JStr("42")])

(***************************************************************************)
(* Ending the array builder.                                               *)
(***************************************************************************)
\* A field can be passed without a value being stored under it: a leaf by
\* some line that ends its prompt with a value line 562 drops, a nested
\* object or array not even when the nested builder hands back its
\* smallest value.
CanLeaveOut(fieldSchemaObj, required) ==
    CASE TypeOf(fieldSchemaObj) = "object" ->
            StoreField(EmptyMap, "f", JObj(EmptyMap)) = EmptyMap
      [] TypeOf(fieldSchemaObj) = "array" ->
            StoreField(EmptyMap, "f", JArr(<<>>)) = EmptyMap
      [] OTHER ->
            \E line \in FieldLines :
                LET a == FieldAnswer(TypeOf(fieldSchemaObj), required, line)
                IN  ~a.again /\ StoreField(EmptyMap, "f", a.value) = EmptyMap

\* buildInputInteractivelyFromSchema(s) can return an object without keys;
\* without properties it is the free-form builder, whose choice 6 does.
CanBeEmpty(s) ==
    "properties" \in DOMAIN s =>
        \A k \in DOMAIN s.properties :
            CanLeaveOut(s.properties[k], IsRequired(s, k))

\* Some console input makes the item builder hand back what lines 588-617
\* take as the end of the array: an empty line for a leaf item, an empty
\* object for an object item, an empty array for an array item.
RECURSIVE CanEnd(_)
CanEnd(itemSchema) ==
    CASE TypeOf(itemSchema) = "object" -> CanBeEmpty(itemSchema)
      [] TypeOf(itemSchema) = "array" -> CanEnd(ItemsOf(itemSchema))
      [] OTHER ->
            \E line \in FieldLines : ItemAnswer(TypeOf(itemSchema), line).done

\* buildArrayInteractively returns in this step.
ArrayReturns ==
    /\ Running
    /\ Top.fn = "array"
    /\ Len(stack') = Len(stack) - 1

\* The array builder returns only through such an ending answer.
EndsOnlyByEndingAnswer == ArrayReturns => CanEnd(Top.itemSchema)

\* Every array being filled has an ending answer.
EveryArrayCanEnd ==
    \A i \in 1..Len(stack) :
        stack[i].fn = "array" => CanEnd(stack[i].itemSchema)

\* Arrays without an ending answer are never left, whatever is typed.
ArrayWithoutEndNeverReturns == [][EndsOnlyByEndingAnswer]_vars

\* C36: whatever item schema was inferred, the user can end the array
\* builder: it returns only through an ending answer of its item builder,
\* and for every array being filled such an answer exists.
C36_ArrayCanBeEnded ==
    [][EndsOnlyByEndingAnswer]_vars /\ []EveryArrayCanEnd

(***************************************************************************)
(* The size of the sample set.                                             *)
(***************************************************************************)
\* C37: the sample set never holds more entries than --limit allows,
\* whatever executions are listed and however many payloads each start
\* event carries.
C37_SampleSetWithinLimit ==
    limit >= 0 => Cardinality(DOMAIN paramExamples) <= limit

(***************************************************************************)
(* The order in which the properties are prompted.                         *)
(***************************************************************************)
\* Line i of the console input; past its end every read is empty.
LineAt(lines, i) == IF i <= Len(lines) THEN lines[i] ELSE ""

\* The schema has properties and all of them are leaves.
Flat(s) ==
    /\ ~NoProperties(s)
    /\ \A k \in DOMAIN s.properties :
            TypeOf(s.properties[k]) \notin {"object", "array"}

\* The loop of lines 485-565 over the leaf fields in the given order, on the
\* given console lines from line i on: the object returned and the lines
\* read; never returning is done = FALSE.
RECURSIVE FillInOrder(_, _, _, _, _)
FillInOrder(s, order, lines, i, result) ==
    IF order = <<>>
    THEN [done |-> TRUE, doc |-> JObj(result), read |-> Min(i - 1, Len(lines))]
    ELSE LET fieldName == Head(order)
             a == FieldAnswer(TypeOf(s.properties[fieldName]),
                              IsRequired(s, fieldName), LineAt(lines, i))
         IN  IF a.again
             THEN IF i > Len(lines)
                  THEN [done |-> FALSE, doc |-> JNull, read |-> Len(lines)]
                  ELSE FillInOrder(s, order, lines, i + 1, result)
             ELSE FillInOrder(s, Tail(order), lines, i + 1,
                              StoreField(result, fieldName, a.value))

\* The document of the session is the one some order of the properties
\* gives on the lines that were read.
BuiltInSomeOrder ==
    (bpc = "confirm" /\ Flat(schema)) =>
        \E order \in Perms(DOMAIN schema.properties) :
            LET r == FillInOrder(schema, order, consumed, 1, EmptyMap)
            IN  r.done /\ r.read = Len(consumed) /\ r.doc = inputData

\* C38: for a fixed schema and fixed console lines the builder returns the
\* same document in whatever order the properties are enumerated: every
\* order that reads the lines of the session gives the session's document.
C38_OrderIndependent ==
    (bpc = "confirm" /\ Flat(schema)) =>
        \A order \in Perms(DOMAIN schema.properties) :
            LET r == FillInOrder(schema, order, consumed, 1, EmptyMap)
            IN  (r.done /\ r.read = Len(consumed)) => r.doc = inputData

(***************************************************************************)
(* The end of the console input.                                           *)
(***************************************************************************)
\* The choices the menu of a free-form builder takes.
MenuChoices(fn) ==
    IF fn = "generic" THEN {"1", "2", "3", "4", "5", "6", "7", "8"}
    ELSE {"1", "2", "3", "4", "5", "6", "7"}

\* The builder on top of the stack is at a read, and what it does with an
\* empty line is to read again: a required field, a number or boolean that
\* does not parse, a menu choice that is none.
RepeatsOnEmpty ==
    /\ Running
    /\ \/ /\ Top.fn = "fromSchema" /\ Top.at = "prompt"
          /\ FieldAnswer(TypeOf(Top.schema.properties[Top.field]),
                         IsRequired(Top.schema, Top.field), "").again
       \/ /\ Top.fn \in {"generic", "garray"} /\ Top.at = "menu"
          /\ TrimSpace("") \notin MenuChoices(Top.fn)
       \/ /\ Top.fn \in {"generic", "garray"}
          /\ Top.at \in {"string", "number", "boolean"}
          /\ ValueAnswer(Top.at, "").again

\* At the end of the input such a read leaves the builders as they are.
StaysAtEOF ==
    (AtEOF /\ RepeatsOnEmpty) =>
        stack' = stack /\ consumed' = consumed /\ bpc' = bpc /\ ret' = ret

\* Once there, the session never gets further.
RepeatsForeverAtEOF == [][StaysAtEOF]_vars

\* C39: when the console input is exhausted and every read yields the
\* empty line, no builder is left at a read that answers the empty line by
\* reading again: every required-field prompt, parse loop and menu ends.
C39_TerminatesAtEOF == AtEOF => ~RepeatsOnEmpty

(***************************************************************************)
(* The executions the schema of start --interactive is inferred from.      *)
(***************************************************************************)
\* The listed executions whose start input has a payload that decodes.
Decodable(r) ==
    IF r.err THEN {}
    ELSE {i \in 1..Len(r.Executions) :
            /\ ~r.Executions[i].err
            /\ FirstDecoded(r.Executions[i].payloads).ok}

\* inferWorkflowSchemaForType returns in this step.
InferenceReturns == bpc = "infer" /\ bpc' = "build"

SchemaFromAnyExecution ==
    (InferenceReturns /\ Decodable(resp) # {}) =>
        /\ schema' # EmptyMap
        /\ \E i \in Decodable(resp) :
                /\ jsonObj' = FirstDecoded(resp.Executions[i].payloads).v
                /\ schema' \in generateJSONSchema(jsonObj', "")

\* C40: interactive start gets a schema whenever some listed execution has
\* a start input that decodes: executions without one are passed over, and
\* the free-form builder runs only when none has.
C40_SchemaFromAnyExecution == [][SchemaFromAnyExecution]_vars

====
